---- MODULE Spec2Model ----
(***************************************************************************)
(* TraceLens: the tracer loop, the enrichment cache, the per-hop           *)
(* enrichment, the command's main flow and the probe engines, as state     *)
(* machines translated from src/tracelens.                                 *)
(*                                                                         *)
(* Python's None is modelled per type: the string "None" for optional      *)
(* strings, NoneRtt for an optional RTT, NoneRec for optional records.     *)
(***************************************************************************)
EXTENDS Integers, Sequences, FiniteSets, TLC

VARIABLES
    \* ---- Cache (src/tracelens/cache.py)
    cache_state,     \* "none" before Cache.__init__, "live" after
    ttl_arg,         \* the ttl argument given to Cache.__init__ (NoTtlArg: omitted)
    cache_ttl,       \* self.ttl
    cache_data,      \* self._data : ip -> entry (a function over its present keys)
    cache_dirty,     \* self._dirty
    disk,            \* the cache file: [state, data]
    now,             \* time.time(), in whole seconds
    last_set,        \* history: ip -> the arguments and time of the latest set(ip, ...)
    cache_ops,       \* history: number of cache operations and clock ticks so far
    save_attempts,   \* history: number of calls of Cache._save that found the cache dirty
    \* ---- Tracer.trace (src/tracelens/probe/tracer.py)
    tr_state,        \* "idle", "probing", "returned", "raised"
    tr_exc,          \* the exception that left trace(): "none", "PermissionError",
                     \* "KeyboardInterrupt", "Exception"
    max_hops,        \* self.max_hops
    probes_per_hop,  \* self.probes_per_hop
    on_hop_kind,     \* the on_hop argument: "none", "mock" (a recording callback),
                     \* "cli" (main's on_hop)
    ttl,             \* the loop variable ttl
    rtts,            \* the local rtts
    hop_ip,          \* the local hop_ip
    reached,         \* the local reached
    hops,            \* the local hops (the returned list)
    probe_open,      \* the engine's sockets: "unopened", "open", "closed", or
                     \* "partly_open" (one opened by a constructor that raised)
    probe_log,       \* history: ttl -> the ProbeResults returned at that ttl, in order
    on_hop_calls,    \* history: the hops on_hop was called with, in order
    \* ---- main and enrich_hop_sync (src/tracelens/cli.py)
    m_pc,            \* "off", "lib", "diag", "start", "cache", "resolve", "trace",
                     \* "exited"
    exit_code,       \* the process exit code (NoExit while running)
    is_admin,        \* is_admin()
    no_cache,        \* --no-cache
    enable_ptr,      \* --dns/--no-dns
    enable_geo,      \* --geo/--no-geo
    enriched_hops,   \* main's enriched_hops
    enrich_log,      \* history: one record per enrich_hop_sync call
    \* ---- Diagnostics (src/tracelens/diagnostics.py)
    diag_cfg,        \* the thresholds given to Diagnostics.__init__
    diag_hops,       \* the hop list handed to add_tags and analyze
    diag_input,      \* history: the hop list as it was before add_tags
    tags_added,      \* add_tags has run on diag_hops
    diagnosis,       \* the Diagnosis analyze returned (NoneRec before)
    exported,        \* the dict JsonExporter.export returned (NoneRec before)
    \* ---- fetch_enrichment (src/tracelens/cli.py lines 103-129)
    fetch_pc,        \* "off", "running", "returned", "merged"
    fetch_need,      \* the lookups needed: a subset of {"asn", "geo", "ptr"}
    fetch_started,   \* the lookups whose coroutine has been started
    fetch_done,      \* the lookups that have completed
    fetch_results,   \* the dict results
    fetch_clock,     \* seconds since fetch_enrichment was entered
    \* ---- Probe engines (src/tracelens/probe/icmp.py, tcp.py, udp.py)
    eng_kind,        \* "off", "icmp_linux", "icmp_windows", "tcp", "udp"
    eng_state,       \* "unbuilt", "ready", "ctor_raised", "closed"
    privileged,      \* the process may open raw sockets
    sequence,        \* LinuxICMPProbe.sequence
    src_port,        \* TCPProbe.src_port
    port_offset,     \* UDPProbe.port_offset
    p_pc,            \* one probe() call: "idle", "waiting", "returned", "raised"
    p_ttl,           \* its ttl argument
    p_dst_port,      \* UDPProbe.probe's local dst_port
    p_elapsed,       \* seconds since send_time
    p_result,        \* the ProbeResult returned
    p_exc,           \* the exception raised ("none" when none)
    p_count,         \* history: probe() calls so far on this engine
    p_dgram,         \* history: the datagram recvfrom delivered last in this call
    p_sent           \* history: sequence, source port and destination port of
                     \* each probe this engine has sent, the latest last

cacheVars == <<cache_state, ttl_arg, cache_ttl, cache_data, cache_dirty, disk, now,
               last_set, cache_ops, save_attempts>>

traceVars == <<tr_state, tr_exc, max_hops, probes_per_hop, on_hop_kind, ttl, rtts,
               hop_ip, reached, hops, probe_open, probe_log, on_hop_calls>>

diagVars == <<diag_cfg, diag_hops, diag_input, tags_added, diagnosis, exported>>

fetchVars == <<fetch_pc, fetch_need, fetch_started, fetch_done, fetch_results,
               fetch_clock>>

mainVars == <<m_pc, exit_code, is_admin, no_cache, enable_ptr, enable_geo,
              enriched_hops, enrich_log, diagVars, fetchVars>>

probeVars == <<eng_kind, eng_state, privileged, sequence, src_port, port_offset, p_pc,
               p_ttl, p_dst_port, p_elapsed, p_result, p_exc, p_count, p_dgram,
               p_sent>>

vars == <<cacheVars, traceVars, mainVars, probeVars>>

(***************************************************************************)
(* Bounds of the model                                                     *)
(***************************************************************************)
MaxCacheOps == 3
MaxHops == 2
MaxProbes == 2
MaxEngineProbes == 2
MaxEnrichCalls == 2
MaxDiagHops == 3

(***************************************************************************)
(* Values                                                                  *)
(***************************************************************************)
None == "None"
NoneRec == [none |-> TRUE]

\* An IPv4 address is the tuple of its four octets; no address (None) is << >>.
NoIP == << >>
IP_A == <<8, 8, 8, 8>>
IP_B == <<1, 1, 1, 1>>
CacheIPs == {IP_A, IP_B}

\* cache.py:24  DEFAULT_TTL = 7 * 24 * 3600
DEFAULT_TTL == 7 * 24 * 3600

\* The ttl argument of Cache.__init__: omitted (None), 0 (the --no-cache run), or a
\* short custom TTL.
NoTtlArg == 0 - 1
TtlArgs == {NoTtlArg, 0, 3}

\* The TTL the caller asked for: the default when the argument is omitted.
RequestedTTL == IF ttl_arg = NoTtlArg THEN DEFAULT_TTL ELSE ttl_arg

\* time.time() at process start: far enough from the epoch that an entry without
\* a timestamp (ts read as 0) is older than any TTL.
StartTime == 3 * DEFAULT_TTL

ASN_1 == [asn |-> "AS15169", org |-> "GOOGLE", prefix |-> "8.8.8.0/24",
          country |-> "US", registry |-> None]
ASN_2 == [asn |-> "AS13335", org |-> None, prefix |-> "1.1.1.0/24",
          country |-> "", registry |-> None]
GEO_1 == [country |-> "United States", country_code |-> "US", city |-> "Ashburn",
          lat |-> "39.03", lon |-> "-77.5"]
GEO_2 == [country |-> "Australia", country_code |-> "AU", city |-> None,
          lat |-> None, lon |-> None]
PTR_1 == "dns.google"
PTR_2 == "one.one.one.one"

(***************************************************************************)
(* Python dict helpers: an entry is a function whose DOMAIN is its keys.   *)
(***************************************************************************)
EmptyDict == [k \in {} |-> None]

DictPut(d, k, v) == [x \in (DOMAIN d) \cup {k} |-> IF x = k THEN v ELSE d[x]]

\* dict.get(k) for the string-valued keys: None when the key is missing
DictGet(d, k) == IF k \in DOMAIN d THEN d[k] ELSE None

\* entry.get('_ts', 0)
EntryTs(entry) == IF "_ts" \in DOMAIN entry THEN entry["_ts"] ELSE 0

(***************************************************************************)
(* Cache reads: pure functions of (self._data, self.ttl, time.time())      *)
(***************************************************************************)
\* Cache._is_valid: time.time() - ts < self.ttl
Cache_is_valid(entry, sttl, t) == t - EntryTs(entry) < sttl

\* Cache.get: the entry when present, non-empty and valid; else None
Cache_get(data, sttl, t, ip) ==
    IF ip \in DOMAIN data /\ DOMAIN data[ip] # {} /\ Cache_is_valid(data[ip], sttl, t)
    THEN data[ip]
    ELSE NoneRec

\* Cache.has
Cache_has(data, sttl, t, ip) == Cache_get(data, sttl, t, ip) # NoneRec

\* Cache.get_asn
Cache_get_asn(data, sttl, t, ip) ==
    LET entry == Cache_get(data, sttl, t, ip) IN
    IF entry # NoneRec /\ "asn" \in DOMAIN entry
    THEN [asn |-> DictGet(entry, "asn"), org |-> DictGet(entry, "org"),
          prefix |-> DictGet(entry, "prefix"),
          country |-> DictGet(entry, "asn_country"), registry |-> None]
    ELSE NoneRec

\* Cache.get_geo
Cache_get_geo(data, sttl, t, ip) ==
    LET entry == Cache_get(data, sttl, t, ip) IN
    IF entry # NoneRec /\ "geo_country" \in DOMAIN entry
    THEN [country |-> DictGet(entry, "geo_country"),
          country_code |-> DictGet(entry, "geo_country_code"),
          city |-> DictGet(entry, "geo_city"),
          lat |-> DictGet(entry, "geo_lat"), lon |-> DictGet(entry, "geo_lon")]
    ELSE NoneRec

\* Cache.get_ptr
Cache_get_ptr(data, sttl, t, ip) ==
    LET entry == Cache_get(data, sttl, t, ip) IN
    IF entry # NoneRec THEN DictGet(entry, "ptr") ELSE None

(***************************************************************************)
(* Cache writes                                                            *)
(***************************************************************************)
\* Cache.set, lines 135-154: merge into the existing entry, stamp _ts
\* The ASN country is stored under the key the geo record uses for its own
SetAsnFields_shared_country_key(entry, asn) ==
    IF asn # NoneRec
    THEN DictPut(DictPut(DictPut(DictPut(entry, "asn", asn.asn), "org", asn.org),
                         "prefix", asn.prefix), "geo_country_code", asn.country)
    ELSE entry

SetAsnFields(entry, asn) ==
    IF asn # NoneRec
    THEN DictPut(DictPut(DictPut(DictPut(entry, "asn", asn.asn), "org", asn.org),
                         "prefix", asn.prefix), "asn_country", asn.country)
    ELSE entry

SetGeoFields(entry, geo) ==
    IF geo # NoneRec
    THEN DictPut(DictPut(DictPut(DictPut(DictPut(entry,
             "geo_country", geo.country), "geo_country_code", geo.country_code),
             "geo_city", geo.city), "geo_lat", geo.lat), "geo_lon", geo.lon)
    ELSE entry

SetPtrField(entry, ptr) == IF ptr # None THEN DictPut(entry, "ptr", ptr) ELSE entry

Cache_set_data_keep_ts(data, t, ip, asn, geo, ptr) ==
    LET entry == IF ip \in DOMAIN data THEN data[ip] ELSE EmptyDict IN
    DictPut(data, ip, SetPtrField(SetGeoFields(SetAsnFields(entry, asn), geo), ptr))

Cache_set_data_replace(data, t, ip, asn, geo, ptr) ==
    DictPut(data, ip,
            SetPtrField(SetGeoFields(SetAsnFields(DictPut(EmptyDict, "_ts", t), asn),
                                     geo), ptr))

Cache_set_data(data, t, ip, asn, geo, ptr) ==
    LET entry == IF ip \in DOMAIN data THEN data[ip] ELSE EmptyDict IN
    DictPut(data, ip,
            SetPtrField(SetGeoFields(SetAsnFields(DictPut(entry, "_ts", t), asn),
                                     geo), ptr))

\* Cache.__init__ line 28: self.ttl = ttl or self.DEFAULT_TTL
Cache_init_ttl(arg) == IF arg = NoTtlArg \/ arg = 0 THEN DEFAULT_TTL ELSE arg

\* Cache._cleanup_expired: the ips whose entry has now - ts > self.ttl
Cache_expired(data, sttl, t) == {ip \in DOMAIN data : t - EntryTs(data[ip]) > sttl}

\* Cache._load: the file's entries minus the expired ones; {} when the file is
\* missing or does not parse
Cache_load_data(d, sttl, t) ==
    IF d.state = "ok"
    THEN [ip \in (DOMAIN d.data) \ Cache_expired(d.data, sttl, t) |-> d.data[ip]]
    ELSE EmptyDict

Cache_load_dirty(d, sttl, t) == d.state = "ok" /\ Cache_expired(d.data, sttl, t) # {}

(***************************************************************************)
(* IPClassifier (src/tracelens/enrichment/ip_classifier.py). The address   *)
(* properties are those of Python's ipaddress.IPv4Address.                 *)
(***************************************************************************)
is_loopback(ip) == ip[1] = 127
is_link_local(ip) == ip[1] = 169 /\ ip[2] = 254
is_multicast(ip) == ip[1] \in 224..239
is_reserved(ip) == ip[1] \in 240..255
in_cgnat(ip) == ip[1] = 100 /\ ip[2] \in 64..127
is_private(ip) ==
    \/ ip[1] \in {0, 10, 127}
    \/ ip[1] = 169 /\ ip[2] = 254
    \/ ip[1] = 172 /\ ip[2] \in 16..31
    \/ ip[1] = 192 /\ ip[2] = 0 /\ ip[3] = 0 /\ ip[4] \in (0..7) \cup {170, 171}
    \/ ip[1] = 192 /\ ip[2] = 0 /\ ip[3] = 2
    \/ ip[1] = 192 /\ ip[2] = 168
    \/ ip[1] = 198 /\ ip[2] \in 18..19
    \/ ip[1] = 198 /\ ip[2] = 51 /\ ip[3] = 100
    \/ ip[1] = 203 /\ ip[2] = 0 /\ ip[3] = 113
    \/ ip[1] \in 240..255
is_global(ip) == ~in_cgnat(ip) /\ ~is_private(ip)

\* IPClassifier.classify
classify(ip) ==
    IF ip = NoIP THEN "unknown"
    ELSE IF is_loopback(ip) THEN "loopback"
    ELSE IF is_link_local(ip) THEN "linklocal"
    ELSE IF is_multicast(ip) THEN "multicast"
    ELSE IF is_private(ip) THEN "private"
    ELSE IF in_cgnat(ip) THEN "cgnat"
    ELSE IF is_reserved(ip) THEN "reserved"
    ELSE IF is_global(ip) THEN "public"
    ELSE "unknown"

\* IPClassifier.should_enrich
should_enrich_unless_rfc1918(ip) == classify(ip) \notin {"private", "loopback", "linklocal"}

should_enrich(ip) == classify(ip) = "public"

\* IPClassifier.get_tag
get_tag(ip) ==
    IF classify(ip) \in {"private", "cgnat", "loopback", "linklocal", "reserved"}
    THEN classify(ip)
    ELSE None

(***************************************************************************)
(* enrich_hop_sync (src/tracelens/cli.py), as a function of the hop, the   *)
(* cache and the outcome L of the lookups:                                 *)
(*   L.asn, L.geo, L.ptr  what ASNLookup.lookup, GeoLookup.lookup and      *)
(*                        PTRResolver.resolve return when awaited          *)
(*   L.raises             the fetch block raises (caught at line 147)      *)
(* The result carries the EnrichedHop, the cache after the call, what the  *)
(* call did to the cache (cache_read: it called the get_* accessors;       *)
(* cached: what they gave; hit: the IP had a valid entry; set_called: it   *)
(* called Cache.set), the lookups it made and what they gave.              *)
(***************************************************************************)
Truthy(str) == str # None /\ str # ""

NewEnrichedHop(hop) ==
    [hop |-> hop.hop, ip |-> hop.ip, rtts |-> hop.rtts, ptr |-> None, asn |-> None,
     org |-> None, geo |-> NoneRec, ip_type |-> None, tags |-> << >>,
     reached_target |-> hop.reached_target]

\* lines 91-95 and 151-155: the geo synthesized from the ASN country
GeoFallback_overrides(geo, asn_info) ==
    IF asn_info # NoneRec /\ Truthy(asn_info.country)
    THEN [country |-> None, country_code |-> asn_info.country, city |-> None,
          lat |-> None, lon |-> None]
    ELSE geo

GeoFallback(geo, asn_info) ==
    IF geo = NoneRec /\ asn_info # NoneRec /\ Truthy(asn_info.country)
    THEN [country |-> None, country_code |-> asn_info.country, city |-> None,
          lat |-> None, lon |-> None]
    ELSE geo

\* The results are kept back and written to the cache some time later
ApplyResultsToCache_deferred(data, t, ip, r_asn, r_geo, r_ptr) == data

\* lines 133-145: the cache after the results are applied, one Cache.set per
\* truthy result
ApplyResultsToCache(data, t, ip, r_asn, r_geo, r_ptr) ==
    LET d1 == IF r_asn # NoneRec
              THEN Cache_set_data(data, t, ip, r_asn, NoneRec, None) ELSE data
        d2 == IF r_geo # NoneRec
              THEN Cache_set_data(d1, t, ip, NoneRec, r_geo, None) ELSE d1
    IN  IF Truthy(r_ptr) THEN Cache_set_data(d2, t, ip, NoneRec, NoneRec, r_ptr) ELSE d2

\* lines 133-145: the EnrichedHop after the results are applied, each truthy result
\* on its own
ApplyResults_all_or_nothing(e, r_asn, r_geo, r_ptr) ==
    IF r_asn # NoneRec /\ r_geo # NoneRec /\ Truthy(r_ptr)
    THEN [e EXCEPT !.asn = r_asn.asn, !.org = r_asn.org, !.geo = r_geo, !.ptr = r_ptr]
    ELSE e

ApplyResults(e, r_asn, r_geo, r_ptr) ==
    [e EXCEPT !.asn = IF r_asn # NoneRec THEN r_asn.asn ELSE @,
              !.org = IF r_asn # NoneRec THEN r_asn.org ELSE @,
              !.geo = IF r_geo # NoneRec THEN r_geo ELSE @,
              !.ptr = IF Truthy(r_ptr) THEN r_ptr ELSE @]

\* lines 85-87: which lookups are still needed
need_asn(cached_asn) == cached_asn = NoneRec

\* the geo lookup is needed whenever no geo came from the cache
need_geo_though_disabled(e_geo, cached_geo) == cached_geo = NoneRec

need_geo(e_geo, cached_geo) == e_geo /\ cached_geo = NoneRec

need_ptr(e_ptr, cached_ptr) == e_ptr /\ ~Truthy(cached_ptr)

enrich_hop_sync(hop, data, sttl, t, e_ptr, e_geo, L) ==
    LET base == NewEnrichedHop(hop)
        no_results == [asn |-> NoneRec, geo |-> NoneRec, ptr |-> None, raised |-> FALSE]
        no_cached == [asn |-> NoneRec, geo |-> NoneRec, ptr |-> None]
        untouched(e) == [enriched |-> e, data |-> data, cache_read |-> FALSE,
                         cached |-> no_cached, hit |-> FALSE, set_called |-> FALSE,
                         looked_up |-> {}, results |-> no_results]
    IN
    IF hop.ip = NoIP THEN untouched(base)
    ELSE
    LET tag == get_tag(hop.ip)
        classified == [base EXCEPT !.ip_type = classify(hop.ip),
                                   !.tags = IF tag # None THEN <<tag>> ELSE << >>]
    IN
    IF ~should_enrich(hop.ip) THEN untouched(classified)
    ELSE
    LET cached_asn == Cache_get_asn(data, sttl, t, hop.ip)
        cached_geo == IF e_geo THEN Cache_get_geo(data, sttl, t, hop.ip) ELSE NoneRec
        cached_ptr == IF e_ptr THEN Cache_get_ptr(data, sttl, t, hop.ip) ELSE None
        hit == Cache_has(data, sttl, t, hop.ip)
        from_cache == [classified EXCEPT
                         !.asn = IF cached_asn # NoneRec THEN cached_asn.asn ELSE None,
                         !.org = IF cached_asn # NoneRec THEN cached_asn.org ELSE None,
                         !.geo = cached_geo,
                         !.ptr = IF Truthy(cached_ptr) THEN cached_ptr ELSE None]
        cached == [asn |-> cached_asn, geo |-> cached_geo, ptr |-> cached_ptr]
        n_asn == need_asn(cached_asn)
        n_geo == need_geo(e_geo, cached_geo)
        n_ptr == need_ptr(e_ptr, cached_ptr)
    IN
    IF ~n_asn /\ ~n_geo /\ ~n_ptr
    THEN [enriched |-> [from_cache EXCEPT !.geo = GeoFallback(from_cache.geo, cached_asn)],
          data |-> data, cache_read |-> TRUE, cached |-> cached, hit |-> hit,
          set_called |-> FALSE,
          looked_up |-> {}, results |-> no_results]
    ELSE
    LET looked == (IF n_asn THEN {"asn"} ELSE {}) \cup
                  (IF n_geo THEN {"geo"} ELSE {}) \cup
                  (IF n_ptr THEN {"ptr"} ELSE {})
        r_asn == IF n_asn /\ ~L.raises THEN L.asn ELSE NoneRec
        r_geo == IF n_geo /\ ~L.raises THEN L.geo ELSE NoneRec
        r_ptr == IF n_ptr /\ ~L.raises THEN L.ptr ELSE None
        asn_info == IF r_asn # NoneRec THEN r_asn ELSE cached_asn
        applied == ApplyResults(from_cache, r_asn, r_geo, r_ptr)
    IN
    [enriched |-> [applied EXCEPT !.geo = GeoFallback(applied.geo, asn_info)],
     data |-> ApplyResultsToCache(data, t, hop.ip, r_asn, r_geo, r_ptr),
     cache_read |-> TRUE,
     cached |-> cached,
     hit |-> hit,
     set_called |-> r_asn # NoneRec \/ r_geo # NoneRec \/ Truthy(r_ptr),
     looked_up |-> looked,
     results |-> [asn |-> r_asn, geo |-> r_geo, ptr |-> r_ptr, raised |-> L.raises]]

\* What the three lookups of one hop can give
NoAnswers == [asn |-> NoneRec, geo |-> NoneRec, ptr |-> None, raises |-> FALSE]

LookupOutcomes ==
    { [asn |-> a, geo |-> g, ptr |-> p, raises |-> FALSE] :
        a \in {NoneRec, ASN_1, ASN_2}, g \in {NoneRec, GEO_1}, p \in {None, PTR_1} }
    \cup { [asn |-> NoneRec, geo |-> NoneRec, ptr |-> None, raises |-> TRUE] }

(***************************************************************************)
(* The cache file before the run. Ages are relative to the TTL in force.   *)
(***************************************************************************)
FileEntry(ts) == SetPtrField(SetAsnFields(DictPut(EmptyDict, "_ts", ts), ASN_1), PTR_1)

DiskStates(sttl, t) ==
    { [state |-> "missing", data |-> EmptyDict],
      [state |-> "corrupt", data |-> EmptyDict],
      [state |-> "ok", data |-> DictPut(EmptyDict, IP_A, FileEntry(t - 1))],
      [state |-> "ok", data |-> DictPut(DictPut(EmptyDict, IP_A, FileEntry(t - sttl)),
                                        IP_B, FileEntry(t - sttl - 1))] }

(***************************************************************************)
(* Cache actions                                                           *)
(***************************************************************************)
NoSets == [ip \in CacheIPs |-> NoneRec]

\* Cache.__init__ (with _load and _cleanup_expired) for the ttl argument arg
CacheConstruct(arg) ==
    /\ cache_state' = "live"
    /\ ttl_arg' = arg
    /\ cache_ttl' = Cache_init_ttl(arg)
    /\ cache_data' = Cache_load_data(disk, cache_ttl', now)
    /\ cache_dirty' = Cache_load_dirty(disk, cache_ttl', now)
    /\ UNCHANGED <<disk, now, last_set, cache_ops, save_attempts>>

CacheNew ==
    /\ m_pc = "off"
    /\ cache_state = "none"
    /\ CacheConstruct(ttl_arg)
    /\ UNCHANGED <<traceVars, mainVars, probeVars>>

SetArgs ==
    { <<ASN_1, GEO_1, PTR_1>>, <<ASN_2, GEO_2, PTR_2>>, <<ASN_2, NoneRec, None>>,
      <<NoneRec, GEO_2, None>>, <<NoneRec, NoneRec, PTR_2>>, <<NoneRec, NoneRec, "">> }

\* Cache.set
CacheSet(ip, asn, geo, ptr) ==
    /\ m_pc = "off"
    /\ cache_state = "live"
    /\ cache_ops < MaxCacheOps
    /\ cache_data' = Cache_set_data(cache_data, now, ip, asn, geo, ptr)
    /\ cache_dirty' = TRUE
    /\ last_set' = [last_set EXCEPT ![ip] = [asn |-> asn, geo |-> geo, ptr |-> ptr,
                                            at |-> now]]
    /\ cache_ops' = cache_ops + 1
    /\ UNCHANGED <<cache_state, ttl_arg, cache_ttl, disk, now, save_attempts>>
    /\ UNCHANGED <<traceVars, mainVars, probeVars>>

\* Cache._save: nothing when not dirty; a failed write (IOError) is swallowed
Cache_save_disk(d, data, dirty, write_ok) ==
    IF dirty /\ write_ok THEN [state |-> "ok", data |-> data] ELSE d

\* dirty is cleared by every attempt, written or not
Cache_save_dirty_cleared_on_failure(dirty, write_ok) == FALSE

Cache_save_dirty(dirty, write_ok) == IF dirty /\ write_ok THEN FALSE ELSE dirty

\* Cache.save
CacheSave(write_ok) ==
    /\ m_pc = "off"
    /\ cache_state = "live"
    /\ cache_ops < MaxCacheOps
    /\ disk' = Cache_save_disk(disk, cache_data, cache_dirty, write_ok)
    /\ cache_dirty' = Cache_save_dirty(cache_dirty, write_ok)
    /\ save_attempts' = IF cache_dirty THEN save_attempts + 1 ELSE save_attempts
    /\ cache_ops' = cache_ops + 1
    /\ UNCHANGED <<cache_state, ttl_arg, cache_ttl, cache_data, now, last_set>>
    /\ UNCHANGED <<traceVars, mainVars, probeVars>>

\* Cache.clear: empty the data, mark dirty, _save
CacheClear(write_ok) ==
    /\ m_pc = "off"
    /\ cache_state = "live"
    /\ cache_ops < MaxCacheOps
    /\ cache_data' = EmptyDict
    /\ disk' = Cache_save_disk(disk, EmptyDict, TRUE, write_ok)
    /\ cache_dirty' = Cache_save_dirty(TRUE, write_ok)
    /\ save_attempts' = save_attempts + 1
    /\ last_set' = NoSets
    /\ cache_ops' = cache_ops + 1
    /\ UNCHANGED <<cache_state, ttl_arg, cache_ttl, now>>
    /\ UNCHANGED <<traceVars, mainVars, probeVars>>

\* The clock advances between two operations
TickSteps == {1, cache_ttl - 1, cache_ttl}

Tick(d) ==
    /\ m_pc = "off"
    /\ cache_state = "live"
    /\ cache_ops < MaxCacheOps
    /\ d > 0
    /\ now' = now + d
    /\ cache_ops' = cache_ops + 1
    /\ UNCHANGED <<cache_state, ttl_arg, cache_ttl, cache_data, cache_dirty, disk,
                   last_set, save_attempts>>
    /\ UNCHANGED <<traceVars, mainVars, probeVars>>

(***************************************************************************)
(* Tracer.trace (src/tracelens/probe/tracer.py)                            *)
(***************************************************************************)
\* models.py:14  rtt_ms: Optional[float] = None
NoneRtt == 0 - 1

HOP_PRIVATE == <<10, 0, 0, 1>>
HOP_PUBLIC == IP_A
TARGET_IP == IP_B

\* What one probe(target_ip, ttl) can return: a timeout, a Time-Exceeded from a
\* private or a public router, a terminal answer from the target, and a terminal
\* Dest-Unreachable sent by a router (RTT 0 ms).
PR_TIMEOUT == [responder_ip |-> NoIP, rtt_ms |-> NoneRtt, reached_target |-> FALSE]
ProbeResults ==
    { PR_TIMEOUT,
      [responder_ip |-> HOP_PRIVATE, rtt_ms |-> 1, reached_target |-> FALSE],
      [responder_ip |-> HOP_PUBLIC, rtt_ms |-> 12, reached_target |-> FALSE],
      [responder_ip |-> TARGET_IP, rtt_ms |-> 30, reached_target |-> TRUE],
      [responder_ip |-> HOP_PUBLIC, rtt_ms |-> 0, reached_target |-> TRUE] }

NoProbes == [t \in 1..(MaxHops + 1) |-> << >>]

InitTraceLocals ==
    /\ ttl = 0
    /\ rtts = << >>
    /\ hop_ip = NoIP
    /\ reached = FALSE
    /\ hops = << >>
    /\ probe_open = "unopened"
    /\ probe_log = NoProbes
    /\ on_hop_calls = << >>
    /\ tr_exc = "none"

\* What the engine's constructor can do (tcp.py lines 38-58, udp.py lines 37-54):
\* open its sockets; raise at the first socket it tries to open (TCPProbe without
\* privilege); or raise at its second socket, the raw ICMP one, after the first
\* was opened (UDPProbe without privilege: its SOCK_DGRAM socket needs none).
\* Nothing in the constructor closes what it had opened.
CtorOutcomes == {"ok", "raised", "raised_after_open"}

\* lines 67-68 .. 88: _create_probe() and the with statement; an exception of the
\* constructor leaves trace() before the with statement is entered
TraceStart(ctor) ==
    /\ tr_state = "idle"
    /\ m_pc \in {"off", "trace"}
    /\ IF ctor # "ok"
       THEN /\ tr_state' = "raised"
            /\ tr_exc' = "PermissionError"
            /\ probe_open' = IF ctor = "raised_after_open" THEN "partly_open"
                                                           ELSE probe_open
            /\ UNCHANGED ttl
       ELSE IF max_hops < 1
       THEN /\ tr_state' = "returned"
            /\ probe_open' = "closed"
            /\ UNCHANGED <<ttl, tr_exc>>
       ELSE /\ tr_state' = "probing"
            /\ probe_open' = "open"
            /\ ttl' = 1
            /\ UNCHANGED tr_exc
    /\ UNCHANGED <<max_hops, probes_per_hop, on_hop_kind, rtts, hop_ip, reached, hops,
                   probe_log, on_hop_calls>>
    /\ UNCHANGED <<cacheVars, mainVars, probeVars>>

\* hop_ip stays with the first responder of the hop
NextHopIp_first_responder(cur, result) ==
    IF cur # NoIP THEN cur ELSE result.responder_ip

\* lines 97-98: hop_ip is the responder of the latest probe that had one
NextHopIp(cur, result) ==
    IF result.responder_ip # NoIP THEN result.responder_ip ELSE cur

\* lines 100-101
NextReached(cur, result) == cur \/ result.reached_target

\* line 96: rtts.append(result.rtt_ms), None included
AppendRtt_skip_none(rs, result) ==
    IF result.rtt_ms = NoneRtt THEN rs ELSE Append(rs, result.rtt_ms)

AppendRtt(rs, result) == Append(rs, result.rtt_ms)

\* line 94: for _ in range(self.probes_per_hop)
ProbesSent(t) == Len(probe_log[t])

\* lines 94-101: one pass of the inner loop
TraceProbe(result) ==
    /\ tr_state = "probing"
    /\ ProbesSent(ttl) < probes_per_hop
    /\ rtts' = AppendRtt(rtts, result)
    /\ hop_ip' = NextHopIp(hop_ip, result)
    /\ reached' = NextReached(reached, result)
    /\ probe_log' = [probe_log EXCEPT ![ttl] = Append(@, result)]
    /\ UNCHANGED <<tr_state, tr_exc, max_hops, probes_per_hop, on_hop_kind, ttl, hops,
                   probe_open, on_hop_calls>>
    /\ UNCHANGED <<cacheVars, mainVars, probeVars>>

\* An exception leaves trace() through the with statement, which closes the engine
TraceRaise(exc) ==
    /\ tr_state' = "raised"
    /\ tr_exc' = exc
    /\ probe_open' = "closed"

\* line 95: probe.probe raises
TraceProbeRaises(exc) ==
    /\ tr_state = "probing"
    /\ ProbesSent(ttl) < probes_per_hop
    /\ TraceRaise(exc)
    /\ UNCHANGED <<max_hops, probes_per_hop, on_hop_kind, ttl, rtts, hop_ip, reached,
                   hops, probe_log, on_hop_calls>>
    /\ UNCHANGED <<cacheVars, mainVars, probeVars>>

\* lines 103-108
NewHop(t, ip, rs, r) == [hop |-> t, ip |-> ip, rtts |-> rs, reached_target |-> r]

\* lines 112-113: if on_hop: on_hop(hop)
OnHopCalls_unless_reached(calls, kind, hop) ==
    IF kind # "none" /\ ~hop.reached_target THEN Append(calls, hop) ELSE calls

OnHopCalls(calls, kind, hop) == IF kind # "none" THEN Append(calls, hop) ELSE calls

\* lines 115-116 and the range of line 89: leave the loop after this hop?
LoopEnds_at_limit_only(r, t, limit) == t >= limit

LoopEnds_one_more(r, t, limit) == r \/ t > limit

LoopEnds(r, t, limit) == r \/ t >= limit

\* The tail of one pass of the outer loop (lines 103-116), after on_hop returned
TraceAdvance(hop) ==
    IF LoopEnds(hop.reached_target, ttl, max_hops)
    THEN /\ tr_state' = "returned"
         /\ probe_open' = "closed"
         /\ UNCHANGED <<ttl, rtts, hop_ip, reached, tr_exc>>
    ELSE /\ ttl' = ttl + 1
         /\ rtts' = << >>
         /\ hop_ip' = NoIP
         /\ reached' = FALSE
         /\ UNCHANGED <<tr_state, probe_open, tr_exc>>

\* lines 103-116 with no callback or a recording callback, which may raise
TraceEmitHop(cb_ok) ==
    /\ tr_state = "probing"
    /\ on_hop_kind \in {"none", "mock"}
    /\ ProbesSent(ttl) = probes_per_hop
    /\ on_hop_kind = "none" => cb_ok
    /\ LET hop == NewHop(ttl, hop_ip, rtts, reached) IN
       /\ hops' = Append(hops, hop)
       /\ on_hop_calls' = OnHopCalls(on_hop_calls, on_hop_kind, hop)
       /\ IF cb_ok
          THEN TraceAdvance(hop)
          ELSE /\ TraceRaise("Exception")
               /\ UNCHANGED <<ttl, rtts, hop_ip, reached>>
    /\ UNCHANGED <<max_hops, probes_per_hop, on_hop_kind, probe_log>>
    /\ UNCHANGED <<cacheVars, mainVars, probeVars>>

\* What one call of enrich_hop_sync did, for the history enrich_log
EnrichLogEntry(hop, e) ==
    [hop |-> hop.hop, ip |-> hop.ip, public |-> classify(hop.ip) = "public",
     cache_read |-> e.cache_read, cached |-> e.cached, hit |-> e.hit,
     set_called |-> e.set_called,
     looked_up |-> e.looked_up, results |-> e.results]

\* lines 103-116 with main's on_hop (cli.py lines 246-252): enrich the hop through
\* the cache, append it to enriched_hops, print it
TraceEmitHopCli(L) ==
    /\ tr_state = "probing"
    /\ on_hop_kind = "cli"
    /\ ProbesSent(ttl) = probes_per_hop
    /\ LET hop == NewHop(ttl, hop_ip, rtts, reached)
           e == enrich_hop_sync(hop, cache_data, cache_ttl, now, enable_ptr,
                                enable_geo, L)
       IN
       /\ hops' = Append(hops, hop)
       /\ on_hop_calls' = OnHopCalls(on_hop_calls, on_hop_kind, hop)
       /\ cache_data' = e.data
       /\ cache_dirty' = (cache_dirty \/ e.set_called)
       /\ enriched_hops' = Append(enriched_hops, e.enriched)
       /\ enrich_log' = Append(enrich_log, EnrichLogEntry(hop, e))
       /\ TraceAdvance(hop)
    /\ UNCHANGED <<max_hops, probes_per_hop, on_hop_kind, probe_log>>
    /\ UNCHANGED <<cache_state, ttl_arg, cache_ttl, disk, now, last_set, cache_ops,
                   save_attempts>>
    /\ UNCHANGED <<m_pc, exit_code, is_admin, no_cache, enable_ptr, enable_geo, diagVars, fetchVars>>
    /\ UNCHANGED probeVars

\* The user interrupts the trace: KeyboardInterrupt is raised in trace()
TraceInterrupt ==
    /\ tr_state = "probing"
    /\ TraceRaise("KeyboardInterrupt")
    /\ UNCHANGED <<max_hops, probes_per_hop, on_hop_kind, ttl, rtts, hop_ip, reached,
                   hops, probe_log, on_hop_calls>>
    /\ UNCHANGED <<cacheVars, mainVars, probeVars>>

(***************************************************************************)
(* main (src/tracelens/cli.py lines 182-305)                               *)
(***************************************************************************)
NoExit == 0 - 1

\* sys.exit(code)
Exit(code) ==
    /\ m_pc' = "exited"
    /\ exit_code' = code

\* lines 199-211: the privilege check
MainCheckAdmin_unchecked ==
    /\ m_pc = "start"
    /\ m_pc' = "cache"
    /\ UNCHANGED exit_code
    /\ UNCHANGED <<is_admin, no_cache, enable_ptr, enable_geo, enriched_hops, enrich_log,
                   diagVars, fetchVars>>
    /\ UNCHANGED <<cacheVars, traceVars, probeVars>>

MainCheckAdmin ==
    /\ m_pc = "start"
    /\ IF is_admin
       THEN m_pc' = "cache" /\ UNCHANGED exit_code
       ELSE Exit(1)
    /\ UNCHANGED <<is_admin, no_cache, enable_ptr, enable_geo, enriched_hops, enrich_log,
                   diagVars, fetchVars>>
    /\ UNCHANGED <<cacheVars, traceVars, probeVars>>

\* line 214: cache = Cache() if not no_cache else Cache(ttl=0)
MainCacheTtlArg(nc) == IF nc THEN 0 ELSE NoTtlArg

MainCreateCache ==
    /\ m_pc = "cache"
    /\ CacheConstruct(MainCacheTtlArg(no_cache))
    /\ m_pc' = "resolve"
    /\ UNCHANGED <<exit_code, is_admin, no_cache, enable_ptr, enable_geo, enriched_hops,
                   enrich_log, diagVars, fetchVars>>
    /\ UNCHANGED <<traceVars, probeVars>>

\* lines 219-233: create the tracer and resolve the target
MainResolve(ok) ==
    /\ m_pc = "resolve"
    /\ IF ok
       THEN m_pc' = "trace" /\ UNCHANGED exit_code
       ELSE Exit(1)
    /\ UNCHANGED <<is_admin, no_cache, enable_ptr, enable_geo, enriched_hops, enrich_log,
                   diagVars, fetchVars>>
    /\ UNCHANGED <<cacheVars, traceVars, probeVars>>

\* lines 257-293: after trace() returned: save the cache unless --no-cache, then
\* the diagnosis and the report; main returns (exit code 0)
MainFinish(write_ok) ==
    /\ m_pc = "trace"
    /\ tr_state = "returned"
    /\ IF no_cache
       THEN UNCHANGED <<disk, cache_dirty, save_attempts>>
       ELSE /\ disk' = Cache_save_disk(disk, cache_data, cache_dirty, write_ok)
            /\ cache_dirty' = Cache_save_dirty(cache_dirty, write_ok)
            /\ save_attempts' = IF cache_dirty THEN save_attempts + 1 ELSE save_attempts
    /\ Exit(0)
    /\ UNCHANGED <<cache_state, ttl_arg, cache_ttl, cache_data, now, last_set, cache_ops>>
    /\ UNCHANGED <<is_admin, no_cache, enable_ptr, enable_geo, enriched_hops, enrich_log,
                   diagVars, fetchVars>>
    /\ UNCHANGED <<traceVars, probeVars>>

\* lines 295-305: the exit code for an exception that left trace()
ExitCodeFor(exc) == IF exc = "KeyboardInterrupt" THEN 130 ELSE 1

MainExcept ==
    /\ m_pc = "trace"
    /\ tr_state = "raised"
    /\ Exit(ExitCodeFor(tr_exc))
    /\ UNCHANGED <<is_admin, no_cache, enable_ptr, enable_geo, enriched_hops, enrich_log,
                   diagVars, fetchVars>>
    /\ UNCHANGED <<cacheVars, traceVars, probeVars>>

(***************************************************************************)
(* Probe engines (src/tracelens/probe/icmp.py, tcp.py, udp.py)             *)
(*                                                                         *)
(* A received datagram is the record of the fields the parsers read:       *)
(*   len, ihl        length of the datagram and of its IP header (bytes)   *)
(*   src             the sender (addr[0])                                  *)
(*   type, code      ICMP type and code                                    *)
(*   ident, seq      ICMP identifier and sequence (bytes 4..8)             *)
(*   inner_*         the embedded packet of an ICMP error: its IP header   *)
(*                   length, protocol and destination, and the first 8     *)
(*                   bytes after it read as ICMP (type, ident, seq) and as *)
(*                   TCP/UDP (sport, dport)                                *)
(***************************************************************************)
ICMP_ECHO_REQUEST == 8
ICMP_ECHO_REPLY == 0
ICMP_TIME_EXCEEDED == 11
ICMP_DEST_UNREACHABLE == 3
ICMP_PORT_UNREACHABLE == 3
IPPROTO_ICMP == 1
IPPROTO_TCP == 6
IPPROTO_UDP == 17

\* base.py:12  timeout: float = 2.0
PROBE_TIMEOUT == 2
\* udp.py:29  base_port: int = 33434
UDP_BASE_PORT == 33434
\* udp.py:63  the rotating window of destination ports
UDP_PORT_WINDOW == 30
\* tcp.py:30  port: int = 80
TCP_PORT == 80
\* tcp.py:33  random.randint(32768, 60999)
TCP_SRC_PORT_MIN == 32768
TCP_SRC_PORT_MAX == 60999
\* icmp.py:201  self.identifier = os.getpid() & 0xFFFF, for some process id
OUR_IDENT == 4242

EmptyProbeResult == [responder_ip |-> NoIP, rtt_ms |-> NoneRtt, reached_target |-> FALSE]

\* rtt_ms = round((recv_time - send_time) * 1000, 2)
RttMs(elapsed) == elapsed * 1000

\* LinuxICMPProbe._is_our_packet; icmp_len = len(icmp_data)
ICMP_is_our_packet_any_ident(d, expected_seq) ==
    LET icmp_len == d.len - d.ihl IN
    /\ icmp_len >= 36
    /\ icmp_len >= 8 + d.inner_ihl + 8
    /\ d.inner_type = ICMP_ECHO_REQUEST
    /\ d.inner_seq = expected_seq

ICMP_is_our_packet(d, expected_seq) ==
    LET icmp_len == d.len - d.ihl IN
    IF icmp_len < 36 THEN FALSE
    ELSE IF icmp_len < 8 + d.inner_ihl + 8 THEN FALSE
    ELSE /\ d.inner_type = ICMP_ECHO_REQUEST
         /\ d.inner_ident = OUR_IDENT
         /\ d.inner_seq = expected_seq

\* LinuxICMPProbe._parse_response: a ProbeResult, or NoneRec to keep waiting
ICMP_parse_response(d, elapsed, expected_seq) ==
    IF d.len < 20 THEN NoneRec
    ELSE IF d.len < d.ihl + 8 THEN NoneRec
    ELSE IF d.type = ICMP_ECHO_REPLY
    THEN IF d.ident = OUR_IDENT /\ d.seq = expected_seq
         THEN [responder_ip |-> d.src, rtt_ms |-> RttMs(elapsed), reached_target |-> TRUE]
         ELSE NoneRec
    ELSE IF d.type = ICMP_TIME_EXCEEDED
    THEN IF ICMP_is_our_packet(d, expected_seq)
         THEN [responder_ip |-> d.src, rtt_ms |-> RttMs(elapsed), reached_target |-> FALSE]
         ELSE NoneRec
    ELSE IF d.type = ICMP_DEST_UNREACHABLE
    THEN IF ICMP_is_our_packet(d, expected_seq)
         THEN [responder_ip |-> d.src, rtt_ms |-> RttMs(elapsed), reached_target |-> TRUE]
         ELSE NoneRec
    ELSE NoneRec

\* TCPProbe.probe lines 209-238: a ProbeResult, or NoneRec to keep waiting. An
\* empty datagram raises IndexError at data[0], which line 242 turns into continue.
TCP_parse_response_any_port(d, elapsed, target_ip, port) ==
    IF /\ d.len - d.ihl >= 36
       /\ d.type \in {ICMP_TIME_EXCEEDED, ICMP_DEST_UNREACHABLE}
       /\ d.inner_proto = IPPROTO_TCP
    THEN [responder_ip |-> d.src, rtt_ms |-> RttMs(elapsed),
          reached_target |-> (d.src = target_ip)]
    ELSE NoneRec

TCP_parse_response(d, elapsed, target_ip, port) ==
    LET icmp_len == d.len - d.ihl IN
    IF d.len = 0 THEN NoneRec
    ELSE IF icmp_len < 8 THEN NoneRec
    ELSE IF /\ d.type \in {ICMP_TIME_EXCEEDED, ICMP_DEST_UNREACHABLE}
            /\ icmp_len >= 36
            /\ d.inner_proto = IPPROTO_TCP
            /\ d.inner_dport = port
    THEN [responder_ip |-> d.src, rtt_ms |-> RttMs(elapsed),
          reached_target |-> (d.src = target_ip)]
    ELSE NoneRec

\* UDPProbe._verify_our_packet
UDP_verify_our_packet_any_proto(d, target_ip, dst_port) ==
    /\ d.len - d.ihl >= 36
    /\ d.inner_dst = target_ip
    /\ UDP_BASE_PORT <= d.inner_dport
    /\ d.inner_dport < UDP_BASE_PORT + UDP_PORT_WINDOW

UDP_verify_our_packet(d, target_ip, dst_port) ==
    LET icmp_len == d.len - d.ihl IN
    IF icmp_len < 36 THEN FALSE
    ELSE IF d.inner_proto # IPPROTO_UDP THEN FALSE
    ELSE IF d.inner_dst # target_ip THEN FALSE
    ELSE /\ UDP_BASE_PORT <= d.inner_dport
         /\ d.inner_dport < UDP_BASE_PORT + UDP_PORT_WINDOW

\* UDPProbe.probe lines 90-119
UDP_parse_response(d, elapsed, target_ip, dst_port) ==
    LET icmp_len == d.len - d.ihl IN
    IF d.len = 0 THEN NoneRec
    ELSE IF icmp_len < 8 THEN NoneRec
    ELSE IF d.type = ICMP_TIME_EXCEEDED /\ UDP_verify_our_packet(d, target_ip, dst_port)
    THEN [responder_ip |-> d.src, rtt_ms |-> RttMs(elapsed), reached_target |-> FALSE]
    ELSE IF d.type = ICMP_DEST_UNREACHABLE
            /\ UDP_verify_our_packet(d, target_ip, dst_port)
    THEN [responder_ip |-> d.src, rtt_ms |-> RttMs(elapsed),
          reached_target |-> (d.code = ICMP_PORT_UNREACHABLE)]
    ELSE NoneRec

\* WindowsICMPProbe.probe lines 142-173: the reply of IcmpSendEcho
IP_SUCCESS == 0
IP_TTL_EXPIRED_TRANSIT == 11013
IP_REQ_TIMED_OUT == 11010

Windows_result_other_no_responder(reply) ==
    IF reply.count = 0 THEN EmptyProbeResult
    ELSE IF reply.status = IP_SUCCESS
    THEN [responder_ip |-> reply.address, rtt_ms |-> reply.rtt, reached_target |-> TRUE]
    ELSE IF reply.status = IP_TTL_EXPIRED_TRANSIT
    THEN [responder_ip |-> reply.address, rtt_ms |-> reply.rtt, reached_target |-> FALSE]
    ELSE IF reply.status = IP_REQ_TIMED_OUT THEN EmptyProbeResult
    ELSE [responder_ip |-> NoIP, rtt_ms |-> NoneRtt, reached_target |-> TRUE]

Windows_result(reply) ==
    IF reply.count = 0 THEN EmptyProbeResult
    ELSE IF reply.status = IP_SUCCESS
    THEN [responder_ip |-> reply.address, rtt_ms |-> reply.rtt, reached_target |-> TRUE]
    ELSE IF reply.status = IP_TTL_EXPIRED_TRANSIT
    THEN [responder_ip |-> reply.address, rtt_ms |-> reply.rtt, reached_target |-> FALSE]
    ELSE IF reply.status = IP_REQ_TIMED_OUT THEN EmptyProbeResult
    ELSE [responder_ip |-> reply.address, rtt_ms |-> reply.rtt, reached_target |-> TRUE]

\* Datagrams the raw ICMP socket can deliver while a probe with sequence sq and
\* UDP destination port dp is outstanding
Dgram(len, src, type, code, ident, seq, iproto, itype, iident, iseq, idst, idport) ==
    [len |-> len, ihl |-> 20, src |-> src, type |-> type, code |-> code,
     ident |-> ident, seq |-> seq, inner_ihl |-> 20, inner_proto |-> iproto,
     inner_type |-> itype, inner_ident |-> iident, inner_seq |-> iseq,
     inner_dst |-> idst, inner_sport |-> 0, inner_dport |-> idport]

Datagrams(sq, dp) ==
    { \* nothing at all, and a truncated datagram
      Dgram(0, NoIP, 0, 0, 0, 0, 0, 0, 0, 0, NoIP, 0),
      Dgram(24, HOP_PUBLIC, ICMP_TIME_EXCEEDED, 0, 0, 0, 0, 0, 0, 0, NoIP, 0),
      \* Echo Reply to this probe, and to another process
      Dgram(36, TARGET_IP, ICMP_ECHO_REPLY, 0, OUR_IDENT, sq, 0, 0, 0, 0, NoIP, 0),
      Dgram(36, TARGET_IP, ICMP_ECHO_REPLY, 0, OUR_IDENT + 1, sq, 0, 0, 0, 0, NoIP, 0),
      \* Time-Exceeded for this ICMP probe, and for the previous one
      Dgram(56, HOP_PUBLIC, ICMP_TIME_EXCEEDED, 0, 0, 0, IPPROTO_ICMP,
            ICMP_ECHO_REQUEST, OUR_IDENT, sq, TARGET_IP, 0),
      Dgram(56, HOP_PUBLIC, ICMP_TIME_EXCEEDED, 0, 0, 0, IPPROTO_ICMP,
            ICMP_ECHO_REQUEST, OUR_IDENT, sq - 1, TARGET_IP, 0),
      \* Time-Exceeded and Dest-Unreachable for a TCP probe to TCP_PORT
      Dgram(56, HOP_PUBLIC, ICMP_TIME_EXCEEDED, 0, 0, 0, IPPROTO_TCP, 0, 0, 0,
            TARGET_IP, TCP_PORT),
      Dgram(56, TARGET_IP, ICMP_DEST_UNREACHABLE, 1, 0, 0, IPPROTO_TCP, 0, 0, 0,
            TARGET_IP, TCP_PORT),
      \* Time-Exceeded, Port-Unreachable and Host-Unreachable for this UDP probe
      Dgram(56, HOP_PUBLIC, ICMP_TIME_EXCEEDED, 0, 0, 0, IPPROTO_UDP, 0, 0, 0,
            TARGET_IP, dp),
      Dgram(56, TARGET_IP, ICMP_DEST_UNREACHABLE, ICMP_PORT_UNREACHABLE, 0, 0,
            IPPROTO_UDP, 0, 0, 0, TARGET_IP, dp),
      Dgram(56, HOP_PUBLIC, ICMP_DEST_UNREACHABLE, 1, 0, 0, IPPROTO_UDP, 0, 0, 0,
            TARGET_IP, dp),
      \* ICMP: an Echo Request of another host; Dest-Unreachable for this probe;
      \* Time-Exceeded for another process's probe, for an embedded Echo Reply,
      \* and one cut short of the embedded ICMP header
      Dgram(36, HOP_PUBLIC, ICMP_ECHO_REQUEST, 0, OUR_IDENT, sq, 0, 0, 0, 0, NoIP, 0),
      Dgram(56, HOP_PUBLIC, ICMP_DEST_UNREACHABLE, 1, 0, 0, IPPROTO_ICMP,
            ICMP_ECHO_REQUEST, OUR_IDENT, sq, TARGET_IP, 0),
      Dgram(56, HOP_PUBLIC, ICMP_TIME_EXCEEDED, 0, 0, 0, IPPROTO_ICMP,
            ICMP_ECHO_REQUEST, OUR_IDENT + 1, sq, TARGET_IP, 0),
      Dgram(56, HOP_PUBLIC, ICMP_TIME_EXCEEDED, 0, 0, 0, IPPROTO_ICMP,
            ICMP_ECHO_REPLY, OUR_IDENT, sq, TARGET_IP, 0),
      Dgram(52, HOP_PUBLIC, ICMP_TIME_EXCEEDED, 0, 0, 0, IPPROTO_ICMP,
            ICMP_ECHO_REQUEST, OUR_IDENT, sq, TARGET_IP, 0),
      \* TCP: Time-Exceeded for a SYN to another port, for a UDP datagram to
      \* TCP_PORT; Dest-Unreachable sent by a router
      Dgram(56, HOP_PUBLIC, ICMP_TIME_EXCEEDED, 0, 0, 0, IPPROTO_TCP, 0, 0, 0,
            TARGET_IP, TCP_PORT + 363),
      Dgram(56, HOP_PUBLIC, ICMP_TIME_EXCEEDED, 0, 0, 0, IPPROTO_UDP, 0, 0, 0,
            TARGET_IP, TCP_PORT),
      Dgram(56, HOP_PUBLIC, ICMP_DEST_UNREACHABLE, 1, 0, 0, IPPROTO_TCP, 0, 0, 0,
            TARGET_IP, TCP_PORT),
      \* UDP: Dest-Unreachable for a TCP segment to dp, for a datagram to another
      \* host, to the port just past the window, to the last port of the window
      Dgram(56, TARGET_IP, ICMP_DEST_UNREACHABLE, ICMP_PORT_UNREACHABLE, 0, 0,
            IPPROTO_TCP, 0, 0, 0, TARGET_IP, dp),
      Dgram(56, HOP_PUBLIC, ICMP_DEST_UNREACHABLE, ICMP_PORT_UNREACHABLE, 0, 0,
            IPPROTO_UDP, 0, 0, 0, HOP_PUBLIC, dp),
      Dgram(56, TARGET_IP, ICMP_DEST_UNREACHABLE, ICMP_PORT_UNREACHABLE, 0, 0,
            IPPROTO_UDP, 0, 0, 0, TARGET_IP, UDP_BASE_PORT + UDP_PORT_WINDOW),
      Dgram(56, HOP_PUBLIC, ICMP_TIME_EXCEEDED, 0, 0, 0, IPPROTO_UDP, 0, 0, 0,
            TARGET_IP, UDP_BASE_PORT + UDP_PORT_WINDOW - 1) }

\* The segment a TCP probe sends carries its source port (tcp.py 184-186, 193), so
\* an ICMP error quoting it does
WithSourcePort(d, sp) ==
    IF d.inner_proto = IPPROTO_TCP THEN [d EXCEPT !.inner_sport = sp] ELSE d

\* The Time-Exceeded a router sends for the probe with the sequence, source
\* port and destination port of the attempt a
TimeExceededFor(kind, a) ==
    IF kind = "icmp_linux"
    THEN Dgram(56, HOP_PUBLIC, ICMP_TIME_EXCEEDED, 0, 0, 0, IPPROTO_ICMP,
               ICMP_ECHO_REQUEST, OUR_IDENT, a.seq, TARGET_IP, 0)
    ELSE IF kind = "tcp"
    THEN WithSourcePort(Dgram(56, HOP_PUBLIC, ICMP_TIME_EXCEEDED, 0, 0, 0,
                              IPPROTO_TCP, 0, 0, 0, TARGET_IP, TCP_PORT), a.sport)
    ELSE Dgram(56, HOP_PUBLIC, ICMP_TIME_EXCEEDED, 0, 0, 0, IPPROTO_UDP, 0, 0, 0,
               TARGET_IP, a.dport)

\* What recvfrom can deliver while the latest probe of sent is outstanding: the
\* datagrams above, and the late answers to the engine's earlier probes
Receivable(kind, sent, sq, sp, dp) ==
    { WithSourcePort(d, sp) : d \in Datagrams(sq, dp) }
    \cup { TimeExceededFor(kind, sent[k]) : k \in 1..(Len(sent) - 1) }

WindowsReplies ==
    { [count |-> 0, address |-> NoIP, status |-> IP_REQ_TIMED_OUT, rtt |-> 0],
      [count |-> 1, address |-> TARGET_IP, status |-> IP_SUCCESS, rtt |-> 30],
      [count |-> 1, address |-> HOP_PUBLIC, status |-> IP_TTL_EXPIRED_TRANSIT, rtt |-> 12],
      [count |-> 1, address |-> NoIP, status |-> IP_REQ_TIMED_OUT, rtt |-> 0],
      [count |-> 1, address |-> HOP_PUBLIC, status |-> 11003, rtt |-> 0],
      \* a general failure: the reply buffer holds no address ("0.0.0.0")
      [count |-> 1, address |-> <<0, 0, 0, 0>>, status |-> 11050, rtt |-> 0] }

\* The engine's constructor. TCPProbe and UDPProbe open their sockets there and
\* raise PermissionError (tcp.py 54-58, udp.py 50-54); WindowsICMPProbe raises
\* RuntimeError when the API cannot be loaded (icmp.py 92-93); LinuxICMPProbe opens
\* nothing (icmp.py 199-202).
CtorRaises(kind, priv, api_ok) ==
    \/ kind \in {"tcp", "udp"} /\ ~priv
    \/ kind = "icmp_windows" /\ ~api_ok

EngineConstruct(api_ok) ==
    /\ eng_state = "unbuilt"
    /\ eng_state' = IF CtorRaises(eng_kind, privileged, api_ok)
                    THEN "ctor_raised" ELSE "ready"
    /\ UNCHANGED <<eng_kind, privileged, sequence, src_port, port_offset, p_pc, p_ttl,
                   p_dst_port, p_elapsed, p_result, p_exc, p_count, p_dgram, p_sent>>
    /\ UNCHANGED <<cacheVars, traceVars, mainVars>>

\* What the part of probe() up to and including the send does, for the ttl t and
\* the fault (if any) the system calls meet:
\*   "none"        every call succeeds
\*   "socket_err"  socket.socket fails with an OSError other than EPERM/EACCES
\*   "send_err"    sendto fails with such an OSError
\*   "send_eperm"  sendto fails with PermissionError
\* The outcome is "waiting" (sent, now receiving), "empty" (ProbeResult() returned)
\* or the name of the exception raised.
TtlFits(t) == t \in 1..255

ICMP_send_outcome(priv, t, fault) ==
    IF ~priv THEN "PermissionError"                  \* socket.socket, lines 250, 282-285
    ELSE IF fault = "socket_err" THEN "empty"        \* line 288
    ELSE IF ~TtlFits(t) THEN "empty"                 \* setsockopt, line 251, 288
    ELSE IF fault = "send_eperm" THEN "PermissionError"
    ELSE IF fault = "send_err" THEN "empty"
    ELSE "waiting"

TCP_send_outcome(t, fault) ==
    IF ~TtlFits(t) THEN "struct.error"               \* _build_ip_header, line 187
    ELSE IF fault \in {"send_err", "send_eperm"} THEN "empty"    \* lines 192-195
    ELSE "waiting"

UDP_send_outcome(t, fault) ==
    IF ~TtlFits(t) THEN "OSError"                    \* setsockopt, line 59
    ELSE IF fault \in {"send_err", "send_eperm"} THEN "empty"    \* lines 74-77
    ELSE "waiting"

SendOutcome(kind, priv, t, fault) ==
    IF kind = "icmp_linux" THEN ICMP_send_outcome(priv, t, fault)
    ELSE IF kind = "tcp" THEN TCP_send_outcome(t, fault)
    ELSE UDP_send_outcome(t, fault)

\* tcp.py 177-179
\* The port wraps to 0 like any 16-bit counter
NextSrcPort_wrap_to_zero(sp) == (sp + 1) % 65536

NextSrcPort(sp) == IF (sp + 1) % 65536 < 32768 THEN 32768 ELSE (sp + 1) % 65536

ProbeFinish(outcome) ==
    /\ p_pc' = IF outcome = "waiting" THEN "waiting"
               ELSE IF outcome = "empty" THEN "returned" ELSE "raised"
    /\ p_exc' = IF outcome \in {"waiting", "empty"} THEN "none" ELSE outcome
    /\ p_result' = EmptyProbeResult

\* probe(target_ip, ttl) of a raw-socket engine, up to the send
ProbeSend(t, fault) ==
    /\ eng_kind \in {"icmp_linux", "tcp", "udp"}
    /\ eng_state = "ready"
    /\ p_pc \in {"idle", "returned"}
    /\ p_count < MaxEngineProbes
    /\ p_count' = p_count + 1
    /\ p_ttl' = t
    /\ p_elapsed' = 0
    /\ p_dgram' = NoneRec
    /\ ProbeFinish(SendOutcome(eng_kind, privileged, t, fault))
    \* _build_packet (icmp.py 220) is reached only when socket and setsockopt succeeded
    /\ sequence' = IF eng_kind = "icmp_linux" /\ privileged /\ fault # "socket_err"
                      /\ TtlFits(t)
                   THEN (sequence + 1) % 65536 ELSE sequence
    /\ src_port' = IF eng_kind = "tcp" THEN NextSrcPort(src_port) ELSE src_port
    \* udp.py 59-63: the port is taken after setsockopt succeeded
    /\ p_dst_port' = IF eng_kind = "udp" /\ TtlFits(t)
                     THEN UDP_BASE_PORT + port_offset ELSE p_dst_port
    /\ port_offset' = IF eng_kind = "udp" /\ TtlFits(t)
                      THEN (port_offset + 1) % UDP_PORT_WINDOW ELSE port_offset
    /\ p_sent' = IF SendOutcome(eng_kind, privileged, t, fault) = "waiting"
                 THEN Append(p_sent, [seq |-> sequence', sport |-> src_port',
                                      dport |-> p_dst_port'])
                 ELSE p_sent
    /\ UNCHANGED <<eng_kind, eng_state, privileged>>
    /\ UNCHANGED <<cacheVars, traceVars, mainVars>>

ParseResponse(kind, d, elapsed, sq, dp) ==
    IF kind = "icmp_linux" THEN ICMP_parse_response(d, elapsed, sq)
    ELSE IF kind = "tcp" THEN TCP_parse_response(d, elapsed, TARGET_IP, TCP_PORT)
    ELSE UDP_parse_response(d, elapsed, TARGET_IP, dp)

\* The wait is armed with the full timeout on every pass
remaining_full_timeout(elapsed) == PROBE_TIMEOUT

\* remaining = deadline - now, with deadline = send_time + timeout (icmp.py
\* 260-263, tcp.py 200, udp.py 82); elapsed is now - send_time
remaining(elapsed) == PROBE_TIMEOUT - elapsed

\* One pass of the receive loop in which recvfrom delivers the datagram d, dt
\* seconds later and before settimeout(remaining) expires
ProbeRecv(d, dt) ==
    /\ p_pc = "waiting"
    /\ dt < remaining(p_elapsed)
    /\ p_elapsed' = p_elapsed + dt
    /\ LET r == ParseResponse(eng_kind, d, p_elapsed', sequence, p_dst_port) IN
       IF r = NoneRec
       THEN UNCHANGED <<p_pc, p_result>>
       ELSE p_pc' = "returned" /\ p_result' = r
    /\ UNCHANGED <<eng_kind, eng_state, privileged, sequence, src_port, port_offset,
                   p_ttl, p_dst_port, p_exc, p_count, p_sent>>
    /\ p_dgram' = d
    /\ UNCHANGED <<cacheVars, traceVars, mainVars>>

\* recvfrom fails with an OSError: LinuxICMPProbe returns ProbeResult() (line 288),
\* TCPProbe and UDPProbe continue (tcp.py 242, udp.py 123)
ProbeRecvError(dt) ==
    /\ p_pc = "waiting"
    /\ dt < remaining(p_elapsed)
    /\ p_elapsed' = p_elapsed + dt
    /\ IF eng_kind = "icmp_linux"
       THEN p_pc' = "returned" /\ p_result' = EmptyProbeResult
       ELSE UNCHANGED <<p_pc, p_result>>
    /\ UNCHANGED <<eng_kind, eng_state, privileged, sequence, src_port, port_offset,
                   p_ttl, p_dst_port, p_exc, p_count, p_dgram, p_sent>>
    /\ UNCHANGED <<cacheVars, traceVars, mainVars>>

\* remaining <= 0 on entering a pass, or recvfrom raises socket.timeout after
\* waiting for remaining
ProbeTimeout ==
    /\ p_pc = "waiting"
    /\ p_elapsed' = IF remaining(p_elapsed) <= 0 THEN p_elapsed
                    ELSE p_elapsed + remaining(p_elapsed)
    /\ p_pc' = "returned"
    /\ p_result' = EmptyProbeResult
    /\ UNCHANGED <<eng_kind, eng_state, privileged, sequence, src_port, port_offset,
                   p_ttl, p_dst_port, p_exc, p_count, p_dgram, p_sent>>
    /\ UNCHANGED <<cacheVars, traceVars, mainVars>>

\* WindowsICMPProbe.probe: one call of IcmpSendEcho, which may fail with an
\* exception (caught at line 175)
ProbeWindows(t, reply, api_raises) ==
    /\ eng_kind = "icmp_windows"
    /\ eng_state = "ready"
    /\ p_pc \in {"idle", "returned"}
    /\ p_count < MaxEngineProbes
    /\ p_count' = p_count + 1
    /\ p_ttl' = t
    /\ p_pc' = "returned"
    /\ p_result' = IF api_raises THEN EmptyProbeResult ELSE Windows_result(reply)
    /\ UNCHANGED <<eng_kind, eng_state, privileged, sequence, src_port, port_offset,
                   p_dst_port, p_elapsed, p_exc, p_dgram, p_sent>>
    /\ UNCHANGED <<cacheVars, traceVars, mainVars>>

\* close()
EngineClose ==
    /\ eng_state = "ready"
    /\ p_pc \in {"idle", "returned", "raised"}
    /\ eng_state' = "closed"
    /\ UNCHANGED <<eng_kind, privileged, sequence, src_port, port_offset, p_pc, p_ttl,
                   p_dst_port, p_elapsed, p_result, p_exc, p_count, p_dgram, p_sent>>
    /\ UNCHANGED <<cacheVars, traceVars, mainVars>>

(***************************************************************************)
(* Diagnostics (src/tracelens/diagnostics.py). RTTs are whole milliseconds; *)
(* a mean is kept exact as the pair of the sum and the number of the       *)
(* present RTTs, and a difference of means as a numerator over a positive  *)
(* denominator.                                                            *)
(***************************************************************************)
LATENCY_JUMP_THRESHOLD == 80
INTERNATIONAL_EGRESS_THRESHOLD == 120
HIGH_JITTER_THRESHOLD == 100
SPIKE_MULTIPLIER == 2
SPIKE_ABSOLUTE_THRESHOLD == 300

\* Diagnostics.__init__ with its defaults
DefaultThresholds ==
    [latency_jump_threshold |-> LATENCY_JUMP_THRESHOLD,
     egress_threshold |-> INTERNATIONAL_EGRESS_THRESHOLD,
     jitter_threshold |-> HIGH_JITTER_THRESHOLD,
     spike_multiplier |-> SPIKE_MULTIPLIER,
     spike_absolute |-> SPIKE_ABSOLUTE_THRESHOLD]

\* valid = [r for r in self.rtts if r is not None]
ValidRtts(rs) == SelectSeq(rs, LAMBDA r : r # NoneRtt)

RECURSIVE SeqSum(_)
SeqSum(sq) == IF sq = << >> THEN 0 ELSE sq[1] + SeqSum(Tail(sq))

SeqMin(sq) == CHOOSE x \in {sq[k] : k \in 1..Len(sq)} :
                  \A y \in {sq[k] : k \in 1..Len(sq)} : x <= y
SeqMax(sq) == CHOOSE x \in {sq[k] : k \in 1..Len(sq)} :
                  \A y \in {sq[k] : k \in 1..Len(sq)} : x >= y

\* EnrichedHop.rtt_avg: sum(valid) / len(valid) if valid else None
rtt_avg(hop) ==
    LET valid == ValidRtts(hop.rtts) IN
    IF valid = << >> THEN NoneRec ELSE [sum |-> SeqSum(valid), n |-> Len(valid)]

\* delta = curr_rtt - prev_rtt
Delta(curr, prev) == [num |-> curr.sum * prev.n - prev.sum * curr.n,
                      den |-> curr.n * prev.n]

\* delta >= threshold
DeltaAtLeast(delta, threshold) == delta.num >= threshold * delta.den

\* round(delta, 1), in tenths of a millisecond (halves go to the even tenth)
RoundTenths(delta) ==
    LET q == (10 * delta.num) \div delta.den
        r == (10 * delta.num) % delta.den
    IN  IF 2 * r < delta.den THEN q
        ELSE IF 2 * r > delta.den THEN q + 1
        ELSE IF q % 2 = 0 THEN q ELSE q + 1

\* if tag not in hop.tags: hop.tags.append(tag)
AddTag(hop, tag) ==
    IF \E k \in 1..Len(hop.tags) : hop.tags[k] = tag
    THEN hop
    ELSE [hop EXCEPT !.tags = Append(@, tag)]

\* lines 107-110 and 177-180: the index of the last hop with a responder (0 when
\* there is none; the code counts from 0 and starts at -1)
last_response_idx(hs) ==
    IF \E i \in 1..Len(hs) : hs[i].ip # NoIP
    THEN CHOOSE i \in 1..Len(hs) :
             /\ hs[i].ip # NoIP
             /\ \A j \in (i + 1)..Len(hs) : hs[j].ip = NoIP
    ELSE 0

\* lines 114 and 183: all(r is None for r in hop.rtts) if hop.rtts else True
all_timeout(hop) == \A k \in 1..Len(hop.rtts) : hop.rtts[k] = NoneRtt

\* Diagnostics._tag_filtering
tag_filtering_any_before_end(hs) ==
    [i \in 1..Len(hs) |->
        IF all_timeout(hs[i]) /\ hs[i].ip = NoIP
        THEN IF i < Len(hs)
             THEN AddTag(hs[i], "icmp_filtered")
             ELSE IF i = Len(hs) /\ ~hs[i].reached_target
                  THEN AddTag(hs[i], "unreachable")
                  ELSE hs[i]
        ELSE hs[i]]

\* A silent last hop is tagged unreachable whether or not it is reached
tag_filtering_unreachable_though_reached(hs) ==
    [i \in 1..Len(hs) |->
        IF all_timeout(hs[i]) /\ hs[i].ip = NoIP
        THEN IF i < last_response_idx(hs)
             THEN AddTag(hs[i], "icmp_filtered")
             ELSE IF i = Len(hs)
                  THEN AddTag(hs[i], "unreachable")
                  ELSE hs[i]
        ELSE hs[i]]

tag_filtering(hs) ==
    [i \in 1..Len(hs) |->
        IF all_timeout(hs[i]) /\ hs[i].ip = NoIP
        THEN IF i < last_response_idx(hs)
             THEN AddTag(hs[i], "icmp_filtered")
             ELSE IF i = Len(hs) /\ ~hs[i].reached_target
                  THEN AddTag(hs[i], "unreachable")
                  ELSE hs[i]
        ELSE hs[i]]

\* prev_rtt when the loops of _tag_latency and _detect_latency_jumps reach hop
\* i: the mean of the nearest earlier hop that has one (lines 148-149, 203-204)
prev_rtt_reset_by_timeout(hs, i) ==
    IF i <= 1 THEN NoneRec ELSE rtt_avg(hs[i - 1])

RECURSIVE prev_rtt(_, _)
prev_rtt(hs, i) ==
    IF i <= 1 THEN NoneRec
    ELSE IF rtt_avg(hs[i - 1]) # NoneRec THEN rtt_avg(hs[i - 1])
    ELSE prev_rtt(hs, i - 1)

\* lines 136-146: the tags of one hop with a delta
LatencyTags_egress_only(cfg, hop, delta) ==
    IF DeltaAtLeast(delta, cfg.egress_threshold)
    THEN AddTag(hop, "international_egress")
    ELSE IF DeltaAtLeast(delta, cfg.latency_jump_threshold)
         THEN AddTag(hop, "latency_jump")
         ELSE hop

LatencyTags(cfg, hop, delta) ==
    IF DeltaAtLeast(delta, cfg.egress_threshold)
    THEN AddTag(AddTag(hop, "latency_jump"), "international_egress")
    ELSE IF DeltaAtLeast(delta, cfg.latency_jump_threshold)
         THEN AddTag(hop, "latency_jump")
         ELSE hop

\* Diagnostics._tag_latency
tag_latency(cfg, hs) ==
    [i \in 1..Len(hs) |->
        LET curr_rtt == rtt_avg(hs[i])
            prev == prev_rtt(hs, i)
        IN  IF curr_rtt # NoneRec /\ prev # NoneRec
            THEN LatencyTags(cfg, hs[i], Delta(curr_rtt, prev))
            ELSE hs[i]]

\* lines 169-173: some present RTT is above the mean times the multiplier and
\* above the absolute threshold
HasSpike(cfg, valid) ==
    \E k \in 1..Len(valid) :
        /\ valid[k] * Len(valid) > SeqSum(valid) * cfg.spike_multiplier
        /\ valid[k] > cfg.spike_absolute

\* Diagnostics._tag_jitter
tag_jitter(cfg, hs) ==
    [i \in 1..Len(hs) |->
        LET valid == ValidRtts(hs[i].rtts) IN
        IF Len(valid) < 2 THEN hs[i]
        ELSE LET jittered == IF SeqMax(valid) - SeqMin(valid) > cfg.jitter_threshold
                             THEN AddTag(hs[i], "high_jitter") ELSE hs[i]
             IN  IF HasSpike(cfg, valid) THEN AddTag(jittered, "spike") ELSE jittered]

\* lines 97-100: mark the destination
tag_destination(hs) ==
    IF hs # << >> /\ hs[Len(hs)].reached_target
    THEN [hs EXCEPT ![Len(hs)] = AddTag(@, "destination")]
    ELSE hs

\* Diagnostics.add_tags
add_tags(cfg, hs) == tag_destination(tag_jitter(cfg, tag_latency(cfg, tag_filtering(hs))))

NoHop == 0 - 1

\* Diagnosis()
NewDiagnosis ==
    [reachable |-> FALSE, total_hops |-> 0, avg_rtt |-> NoneRec, filtered_hops |-> << >>,
     latency_jumps |-> << >>, egress_hop |-> NoHop, issues |-> << >>]

\* Diagnostics._detect_filtering: diagnosis.filtered_hops
detect_filtering(hs) ==
    LET filtered(i) == all_timeout(hs[i]) /\ hs[i].ip = NoIP /\ i < last_response_idx(hs)
        F[i \in 0..Len(hs)] ==
            IF i = 0 THEN << >>
            ELSE IF filtered(i) THEN Append(F[i - 1], hs[i].hop) ELSE F[i - 1]
    IN  F[Len(hs)]

\* The delta the loop of _detect_latency_jumps computes at hop i (NoneRec when it
\* computes none)
DeltaAt(hs, i) ==
    IF rtt_avg(hs[i]) # NoneRec /\ prev_rtt(hs, i) # NoneRec
    THEN Delta(rtt_avg(hs[i]), prev_rtt(hs, i))
    ELSE NoneRec

\* Diagnostics._detect_latency_jumps: diagnosis.latency_jumps, deltas in tenths
detect_latency_jumps(cfg, hs) ==
    LET jump(i) == /\ DeltaAt(hs, i) # NoneRec
                   /\ DeltaAtLeast(DeltaAt(hs, i), cfg.latency_jump_threshold)
        J[i \in 0..Len(hs)] ==
            IF i = 0 THEN << >>
            ELSE IF jump(i)
                 THEN Append(J[i - 1], <<hs[i].hop, RoundTenths(DeltaAt(hs, i))>>)
                 ELSE J[i - 1]
    IN  J[Len(hs)]

\* Diagnostics._detect_latency_jumps: diagnosis.egress_hop (lines 197-201: set
\* once, inside the branch of a listed jump)
detect_egress_hop(cfg, hs) ==
    LET egress(i) == /\ DeltaAt(hs, i) # NoneRec
                     /\ DeltaAtLeast(DeltaAt(hs, i), cfg.latency_jump_threshold)
                     /\ DeltaAtLeast(DeltaAt(hs, i), cfg.egress_threshold)
    IN  IF \E i \in 1..Len(hs) : egress(i)
        THEN hs[CHOOSE i \in 1..Len(hs) :
                    egress(i) /\ \A j \in 1..(i - 1) : ~egress(j)].hop
        ELSE NoHop

\* Diagnostics._generate_issues: one record per issue string
generate_issues(cfg, d) ==
    LET unreachable == IF ~d.reachable THEN <<[issue |-> "Target unreachable"]>>
                       ELSE << >>
        n == Len(d.filtered_hops)
        filtering == IF n > 0
                     THEN <<[issue |-> "ICMP filtering detected at hop(s)",
                             hops |-> SubSeq(d.filtered_hops, 1, IF n > 5 THEN 5 ELSE n),
                             more |-> IF n > 5 THEN n - 5 ELSE 0]>>
                     ELSE << >>
        jumps == [k \in 1..Len(d.latency_jumps) |->
                     [issue |-> "Latency jump", hop |-> d.latency_jumps[k][1],
                      delta |-> d.latency_jumps[k][2],
                      international |-> d.latency_jumps[k][2] >= 10 * cfg.egress_threshold]]
    IN  unreachable \o filtering \o jumps

\* Diagnostics.analyze
analyze(cfg, hs) ==
    IF hs = << >> THEN NewDiagnosis
    ELSE
    LET last_hop == hs[Len(hs)]
        \* line 64: 'if last_hop.rtt_avg' is false for None and for a mean of 0
        avg == IF rtt_avg(last_hop) # NoneRec /\ rtt_avg(last_hop).sum # 0
               THEN rtt_avg(last_hop) ELSE NoneRec
        d == [NewDiagnosis EXCEPT
                 !.reachable = last_hop.reached_target,
                 !.total_hops = Len(hs),
                 !.avg_rtt = avg,
                 !.filtered_hops = detect_filtering(hs),
                 !.latency_jumps = detect_latency_jumps(cfg, hs),
                 !.egress_hop = detect_egress_hop(cfg, hs)]
    IN  [d EXCEPT !.issues = generate_issues(cfg, d)]

\* The hop lists handed to Diagnostics: each hop is one of these kinds of
\* responder and RTTs
DiagHopKinds ==
    { <<NoIP, <<NoneRtt, NoneRtt>>, << >> >>,
      <<NoIP, <<NoneRtt, 5>>, << >> >>,
      <<IP_A, <<NoneRtt, NoneRtt>>, << >> >>,
      <<HOP_PRIVATE, <<1, 2>>, <<"private">> >>,
      <<HOP_PRIVATE, <<1, NoneRtt>>, <<"private">> >>,
      <<IP_A, <<81, 81>>, << >> >>,
      <<IP_B, <<201, NoneRtt>>, << >> >>,
      <<IP_B, <<0, 0>>, << >> >> }

DiagHop(t, kind, r) ==
    [NewEnrichedHop(NewHop(t, kind[1], kind[2], r)) EXCEPT !.tags = kind[3]]

\* The lists of up to MaxDiagHops hops; only the last hop may be reached
DiagHopLists ==
    UNION { { [i \in 1..n |-> DiagHop(i, ks[i], r /\ i = n)] :
                ks \in [1..n -> DiagHopKinds], r \in BOOLEAN } : n \in 0..MaxDiagHops }

\* The default thresholds, the two thresholds equal, and the latency-jump
\* threshold above the egress threshold
DiagConfigs ==
    { DefaultThresholds,
      [DefaultThresholds EXCEPT !.latency_jump_threshold = 80, !.egress_threshold = 80],
      [DefaultThresholds EXCEPT !.latency_jump_threshold = 120, !.egress_threshold = 80] }

DiagAddTags ==
    /\ m_pc = "diag"
    /\ ~tags_added
    /\ diag_hops' = add_tags(diag_cfg, diag_hops)
    /\ tags_added' = TRUE
    /\ UNCHANGED <<diag_cfg, diag_input, diagnosis, exported>>
    /\ UNCHANGED fetchVars
    /\ UNCHANGED <<m_pc, exit_code, is_admin, no_cache, enable_ptr, enable_geo,
                   enriched_hops, enrich_log>>
    /\ UNCHANGED <<cacheVars, traceVars, probeVars>>

DiagAnalyze ==
    /\ m_pc = "diag"
    /\ diagnosis = NoneRec
    /\ diagnosis' = analyze(diag_cfg, diag_hops)
    /\ UNCHANGED <<diag_cfg, diag_hops, diag_input, tags_added, exported>>
    /\ UNCHANGED fetchVars
    /\ UNCHANGED <<m_pc, exit_code, is_admin, no_cache, enable_ptr, enable_geo,
                   enriched_hops, enrich_log>>
    /\ UNCHANGED <<cacheVars, traceVars, probeVars>>

(***************************************************************************)
(* Specifications                                                          *)
(***************************************************************************)
CacheIdle ==
    /\ cache_state = "none"
    /\ cache_ttl = 0
    /\ cache_data = EmptyDict
    /\ cache_dirty = FALSE
    /\ now = StartTime
    /\ last_set = NoSets
    /\ cache_ops = 0
    /\ save_attempts = 0

(***************************************************************************)
(* JsonExporter (src/tracelens/output/json_export.py)                      *)
(***************************************************************************)
\* EnrichedHop.rtt_min and rtt_max (models.py lines 70-83): NoneRtt for None
rtt_min(hop) ==
    LET valid == ValidRtts(hop.rtts) IN
    IF valid = << >> THEN NoneRtt ELSE SeqMin(valid)

rtt_max(hop) ==
    LET valid == ValidRtts(hop.rtts) IN
    IF valid = << >> THEN NoneRtt ELSE SeqMax(valid)

\* round(x, 2) of the mean sum / n, in hundredths of a millisecond
RoundHundredths(avg) ==
    LET q == (100 * avg.sum) \div avg.n
        r == (100 * avg.sum) % avg.n
    IN  IF 2 * r < avg.n THEN q
        ELSE IF 2 * r > avg.n THEN q + 1
        ELSE IF q % 2 = 0 THEN q ELSE q + 1

\* null in the place of a JSON number
JsonNull == 0 - 1

\* 'round(x, 2) if x else None' for rtt_min and rtt_max, in hundredths: null for
\* None and for 0
JsonRtt(x) == IF x = NoneRtt \/ x = 0 THEN JsonNull ELSE 100 * x

\* the same for the mean
JsonAvg(avg) == IF avg = NoneRec \/ avg.sum = 0 THEN JsonNull ELSE RoundHundredths(avg)

\* JsonExporter._serialize_hop: the hop number and the three statistics
serialize_hop(hop) ==
    [hop |-> hop.hop,
     rtt_min |-> JsonRtt(rtt_min(hop)),
     rtt_avg |-> JsonAvg(rtt_avg(hop)),
     rtt_max |-> JsonRtt(rtt_max(hop))]

\* JsonExporter.export: the hops and the diagnosis' avg_rtt_ms
export(hs, d) ==
    [hops |-> [i \in 1..Len(hs) |-> serialize_hop(hs[i])],
     avg_rtt_ms |-> JsonAvg(d.avg_rtt)]

DiagExport ==
    /\ m_pc = "diag"
    /\ diagnosis # NoneRec
    /\ exported = NoneRec
    /\ exported' = export(diag_hops, diagnosis)
    /\ UNCHANGED <<diag_cfg, diag_hops, diag_input, tags_added, diagnosis>>
    /\ UNCHANGED fetchVars
    /\ UNCHANGED <<m_pc, exit_code, is_admin, no_cache, enable_ptr, enable_geo,
                   enriched_hops, enrich_log>>
    /\ UNCHANGED <<cacheVars, traceVars, probeVars>>

DiagOff ==
    /\ diag_cfg = DefaultThresholds
    /\ diag_hops = << >>
    /\ diag_input = << >>
    /\ tags_added = FALSE
    /\ diagnosis = NoneRec
    /\ exported = NoneRec

NoResults == [asn |-> NoneRec, geo |-> NoneRec, ptr |-> None]

FetchOff ==
    /\ fetch_pc = "off"
    /\ fetch_need = {}
    /\ fetch_started = {}
    /\ fetch_done = {}
    /\ fetch_results = NoResults
    /\ fetch_clock = 0

MainOff ==
    /\ m_pc = "off"
    /\ exit_code = NoExit
    /\ is_admin = TRUE
    /\ no_cache = FALSE
    /\ enable_ptr = TRUE
    /\ enable_geo = TRUE
    /\ enriched_hops = << >>
    /\ enrich_log = << >>
    /\ DiagOff
    /\ FetchOff

TraceOff ==
    /\ tr_state = "off"
    /\ max_hops = 0
    /\ probes_per_hop = 0
    /\ on_hop_kind = "none"
    /\ InitTraceLocals

ProbeIdle ==
    /\ sequence = 0
    /\ port_offset = 0
    /\ p_pc = "idle"
    /\ p_ttl = 0
    /\ p_dst_port = 0
    /\ p_elapsed = 0
    /\ p_result = EmptyProbeResult
    /\ p_exc = "none"
    /\ p_count = 0
    /\ p_dgram = NoneRec
    /\ p_sent = << >>

ProbeOff ==
    /\ eng_kind = "off"
    /\ eng_state = "unbuilt"
    /\ privileged = TRUE
    /\ src_port = TCP_SRC_PORT_MIN
    /\ ProbeIdle

\* The cache alone: a constructor call, then any sequence of set, save, clear and
\* clock ticks
InitCache ==
    /\ CacheIdle
    /\ ttl_arg \in TtlArgs
    /\ disk \in DiskStates(RequestedTTL, now)
    /\ TraceOff
    /\ MainOff
    /\ ProbeOff

NextCache ==
    \/ CacheNew
    \/ \E ip \in CacheIPs, a \in SetArgs : CacheSet(ip, a[1], a[2], a[3])
    \/ \E ok \in BOOLEAN : CacheSave(ok)
    \/ \E ok \in BOOLEAN : CacheClear(ok)
    \/ \E d \in TickSteps : Tick(d)

SpecCache == InitCache /\ [][NextCache]_vars

\* The tracer alone, for every configuration and every probe outcome
InitTrace ==
    /\ CacheIdle
    /\ ttl_arg = NoTtlArg
    /\ disk = [state |-> "missing", data |-> EmptyDict]
    /\ MainOff
    /\ ProbeOff
    /\ tr_state = "idle"
    /\ max_hops \in 0..MaxHops
    /\ probes_per_hop \in 0..MaxProbes
    /\ on_hop_kind \in {"none", "mock"}
    /\ InitTraceLocals

NextTrace ==
    \/ \E c \in CtorOutcomes : TraceStart(c)
    \/ \E r \in ProbeResults : TraceProbe(r)
    \/ \E x \in {"PermissionError", "Exception"} : TraceProbeRaises(x)
    \/ \E ok \in BOOLEAN : TraceEmitHop(ok)
    \/ TraceInterrupt

SpecTrace == InitTrace /\ [][NextTrace]_vars

\* The command: main with the tracer, main's on_hop and the cache
InitMain ==
    /\ CacheIdle
    /\ ttl_arg = NoTtlArg
    /\ disk \in DiskStates(DEFAULT_TTL, now)
    /\ m_pc = "start"
    /\ exit_code = NoExit
    /\ is_admin \in BOOLEAN
    /\ no_cache \in BOOLEAN
    /\ enable_ptr \in BOOLEAN
    /\ enable_geo \in BOOLEAN
    /\ enriched_hops = << >>
    /\ enrich_log = << >>
    /\ DiagOff
    /\ FetchOff
    /\ tr_state = "idle"
    /\ max_hops \in 1..MaxHops
    /\ probes_per_hop = 1
    /\ on_hop_kind = "cli"
    /\ InitTraceLocals
    /\ ProbeOff

NextMain ==
    \/ MainCheckAdmin
    \/ MainCreateCache
    \/ \E ok \in BOOLEAN : MainResolve(ok)
    \/ \E c \in CtorOutcomes : TraceStart(c)
    \/ \E r \in ProbeResults : TraceProbe(r)
    \/ \E x \in {"PermissionError", "Exception"} : TraceProbeRaises(x)
    \/ \E L \in LookupOutcomes : TraceEmitHopCli(L)
    \/ TraceInterrupt
    \/ \E ok \in BOOLEAN : MainFinish(ok)
    \/ MainExcept

SpecMain == InitMain /\ [][NextMain]_vars

\* enrich_hop_sync alone, called on hops with responders of every class over a
\* cache loaded from the file
HopIPs ==
    { NoIP, HOP_PRIVATE, <<100, 64, 1, 1>>, <<127, 0, 0, 1>>, <<169, 254, 1, 1>>,
      <<224, 0, 0, 5>>, <<240, 0, 0, 1>>, <<192, 0, 2, 1>>, IP_A }

EnrichSetup ==
    /\ m_pc = "lib"
    /\ cache_state = "none"
    /\ CacheConstruct(ttl_arg)
    /\ UNCHANGED <<traceVars, mainVars, probeVars>>

EnrichCall(ip, L) ==
    /\ m_pc = "lib"
    /\ cache_state = "live"
    /\ Len(enrich_log) < MaxEnrichCalls
    /\ LET hop == NewHop(Len(enrich_log) + 1, ip,
                         IF ip = NoIP THEN <<NoneRtt>> ELSE <<12>>, FALSE)
           e == enrich_hop_sync(hop, cache_data, cache_ttl, now, enable_ptr,
                                enable_geo, L)
       IN
       /\ cache_data' = e.data
       /\ cache_dirty' = (cache_dirty \/ e.set_called)
       /\ enriched_hops' = Append(enriched_hops, e.enriched)
       /\ enrich_log' = Append(enrich_log, EnrichLogEntry(hop, e))
    /\ UNCHANGED <<cache_state, ttl_arg, cache_ttl, disk, now, last_set, cache_ops,
                   save_attempts>>
    /\ UNCHANGED <<m_pc, exit_code, is_admin, no_cache, enable_ptr, enable_geo, diagVars, fetchVars>>
    /\ UNCHANGED <<traceVars, probeVars>>

InitEnrich ==
    /\ CacheIdle
    /\ ttl_arg = NoTtlArg
    /\ disk \in DiskStates(DEFAULT_TTL, now)
    /\ TraceOff
    /\ ProbeOff
    /\ m_pc = "lib"
    /\ exit_code = NoExit
    /\ is_admin = TRUE
    /\ no_cache = FALSE
    /\ enable_ptr \in BOOLEAN
    /\ enable_geo \in BOOLEAN
    /\ enriched_hops = << >>
    /\ enrich_log = << >>
    /\ DiagOff
    /\ FetchOff

NextEnrich ==
    \/ EnrichSetup
    \/ \E ip \in HopIPs, L \in LookupOutcomes :
           \* the lookups' answers matter only to a call that makes lookups
           /\ should_enrich(ip) \/ L = NoAnswers
           /\ EnrichCall(ip, L)

SpecEnrich == InitEnrich /\ [][NextEnrich]_vars

\* Diagnostics alone: add_tags and analyze on every hop list and configuration
InitDiag ==
    /\ CacheIdle
    /\ ttl_arg = NoTtlArg
    /\ disk = [state |-> "missing", data |-> EmptyDict]
    /\ TraceOff
    /\ ProbeOff
    /\ m_pc = "diag"
    /\ exit_code = NoExit
    /\ is_admin = TRUE
    /\ no_cache = FALSE
    /\ enable_ptr = TRUE
    /\ enable_geo = TRUE
    /\ enriched_hops = << >>
    /\ enrich_log = << >>
    /\ diag_cfg \in DiagConfigs
    /\ diag_hops \in DiagHopLists
    /\ diag_input = diag_hops
    /\ tags_added = FALSE
    /\ diagnosis = NoneRec
    /\ exported = NoneRec
    /\ FetchOff

NextDiag ==
    \/ DiagAddTags
    \/ DiagAnalyze
    \/ DiagExport

SpecDiag == InitDiag /\ [][NextDiag]_vars

(***************************************************************************)
(* fetch_enrichment (cli.py lines 103-129): the lookups of one hop          *)
(***************************************************************************)
MaxLookupSeconds == 2

Lookups == {"asn", "geo", "ptr"}

\* The order of the three if-blocks (lines 107, 115, 120)
LookupRank(k) == IF k = "asn" THEN 1 ELSE IF k = "geo" THEN 2 ELSE 3

\* What a lookup can give: lookup() and resolve() return None on every failure
LookupAnswers(k) ==
    IF k = "asn" THEN {NoneRec, ASN_1, ASN_2}
    ELSE IF k = "geo" THEN {NoneRec, GEO_1}
    ELSE {None, PTR_1}

\* The coroutine reaches the if-block of k: k is needed, the blocks before it
\* have been passed, and the await of every lookup started before has returned
\* (lines 110, 117, 123: results[k] = await ...)
MayStart(k, need, started, done) ==
    /\ k \in need \ started
    /\ \A j \in need : LookupRank(j) < LookupRank(k) => j \in started
    /\ started = done

\* lines 107-110, 115-117, 120-123 up to the await: the lookup of k is started
FetchStartLookup(k) ==
    /\ fetch_pc = "running"
    /\ MayStart(k, fetch_need, fetch_started, fetch_done)
    /\ fetch_started' = fetch_started \cup {k}
    /\ UNCHANGED <<fetch_pc, fetch_need, fetch_done, fetch_results, fetch_clock>>
    /\ UNCHANGED <<m_pc, exit_code, is_admin, no_cache, enable_ptr, enable_geo,
                   enriched_hops, enrich_log, diagVars>>
    /\ UNCHANGED <<cacheVars, traceVars, probeVars>>

\* The lookup of k completes after d seconds with the answer r, which the await
\* stores in results
FetchLookupDone(k, r, d) ==
    /\ fetch_pc = "running"
    /\ k \in fetch_started \ fetch_done
    /\ fetch_done' = fetch_done \cup {k}
    /\ fetch_results' = [fetch_results EXCEPT ![k] = r]
    /\ fetch_clock' = fetch_clock + d
    /\ UNCHANGED <<fetch_pc, fetch_need, fetch_started>>
    /\ UNCHANGED <<m_pc, exit_code, is_admin, no_cache, enable_ptr, enable_geo,
                   enriched_hops, enrich_log, diagVars>>
    /\ UNCHANGED <<cacheVars, traceVars, probeVars>>

\* line 127 and line 129: return results, and run_until_complete returns them
FetchReturn ==
    /\ fetch_pc = "running"
    /\ fetch_started = fetch_need
    /\ fetch_done = fetch_need
    /\ fetch_pc' = "returned"
    /\ UNCHANGED <<fetch_need, fetch_started, fetch_done, fetch_results, fetch_clock>>
    /\ UNCHANGED <<m_pc, exit_code, is_admin, no_cache, enable_ptr, enable_geo,
                   enriched_hops, enrich_log, diagVars>>
    /\ UNCHANGED <<cacheVars, traceVars, probeVars>>

\* The hop being enriched
FetchHop == NewHop(1, IP_A, <<12>>, FALSE)

\* lines 132-155: the results are applied to the EnrichedHop and written through
\* to the cache, and enrich_hop_sync returns
FetchMerge ==
    /\ fetch_pc = "returned"
    /\ fetch_pc' = "merged"
    /\ LET L == [asn |-> fetch_results.asn, geo |-> fetch_results.geo,
                 ptr |-> fetch_results.ptr, raises |-> FALSE]
           e == enrich_hop_sync(FetchHop, cache_data, cache_ttl, now, enable_ptr,
                                enable_geo, L)
       IN
       /\ cache_data' = e.data
       /\ cache_dirty' = (cache_dirty \/ e.set_called)
       /\ enriched_hops' = Append(enriched_hops, e.enriched)
    /\ UNCHANGED <<fetch_need, fetch_started, fetch_done, fetch_results, fetch_clock>>
    /\ UNCHANGED <<cache_state, ttl_arg, cache_ttl, disk, now, last_set, cache_ops,
                   save_attempts>>
    /\ UNCHANGED <<m_pc, exit_code, is_admin, no_cache, enable_ptr, enable_geo,
                   enrich_log, diagVars>>
    /\ UNCHANGED <<traceVars, probeVars>>

\* What the cache can hold for the hop's IP when enrich_hop_sync is called:
\* nothing, an entry that has expired, a valid entry with the ASN fields only,
\* a valid entry with the geo and PTR fields only
FetchCaches ==
    { EmptyDict,
      DictPut(EmptyDict, IP_A, FileEntry(StartTime - DEFAULT_TTL)),
      DictPut(EmptyDict, IP_A,
              SetAsnFields(DictPut(EmptyDict, "_ts", StartTime - 1), ASN_2)),
      DictPut(EmptyDict, IP_A,
              SetPtrField(SetGeoFields(DictPut(EmptyDict, "_ts", StartTime - 1),
                                       GEO_1), PTR_1)) }

\* lines 68-70 and 85-87: the lookups the call needs
FetchNeeds(data, sttl, t, e_ptr, e_geo) ==
    LET cached_geo == IF e_geo THEN Cache_get_geo(data, sttl, t, IP_A) ELSE NoneRec
        cached_ptr == IF e_ptr THEN Cache_get_ptr(data, sttl, t, IP_A) ELSE None
    IN  (IF need_asn(Cache_get_asn(data, sttl, t, IP_A)) THEN {"asn"} ELSE {}) \cup
        (IF need_geo(e_geo, cached_geo) THEN {"geo"} ELSE {}) \cup
        (IF need_ptr(e_ptr, cached_ptr) THEN {"ptr"} ELSE {})

\* fetch_enrichment and the merge of its results, for every cache content and
\* every setting that needs a lookup (line 89 returns before it when none is
\* needed)
InitFetch ==
    /\ cache_state = "live"
    /\ cache_ttl = DEFAULT_TTL
    /\ cache_data \in FetchCaches
    /\ cache_dirty = FALSE
    /\ now = StartTime
    /\ last_set = NoSets
    /\ cache_ops = 0
    /\ save_attempts = 0
    /\ ttl_arg = NoTtlArg
    /\ disk = [state |-> "missing", data |-> EmptyDict]
    /\ TraceOff
    /\ ProbeOff
    /\ m_pc = "fetch"
    /\ exit_code = NoExit
    /\ is_admin = TRUE
    /\ no_cache = FALSE
    /\ enable_ptr \in BOOLEAN
    /\ enable_geo \in BOOLEAN
    /\ enriched_hops = << >>
    /\ enrich_log = << >>
    /\ DiagOff
    /\ fetch_pc = "running"
    /\ fetch_need = FetchNeeds(cache_data, cache_ttl, now, enable_ptr, enable_geo)
    /\ fetch_need # {}
    /\ fetch_started = {}
    /\ fetch_done = {}
    /\ fetch_results = NoResults
    /\ fetch_clock = 0

NextFetch ==
    \/ \E k \in Lookups : FetchStartLookup(k)
    \/ \E k \in Lookups, d \in 1..MaxLookupSeconds :
           \E r \in LookupAnswers(k) : FetchLookupDone(k, r, d)
    \/ FetchReturn
    \/ FetchMerge

SpecFetch == InitFetch /\ [][NextFetch]_vars


\* One probe engine: its constructor, then probes with every ttl, fault and
\* incoming datagram
TtlInputs == {1, 255, 256}
SendFaults == {"none", "socket_err", "send_err", "send_eperm"}

\* TCPProbe.src_port when the modelled probes begin: either end of the range
\* __init__ draws it from, and the last port but one, which the engine holds
\* once a long trace has carried it there
SrcPortStarts == {TCP_SRC_PORT_MIN, TCP_SRC_PORT_MAX, 65534}

InitProbe ==
    /\ CacheIdle
    /\ ttl_arg = NoTtlArg
    /\ disk = [state |-> "missing", data |-> EmptyDict]
    /\ TraceOff
    /\ MainOff
    /\ eng_kind \in {"icmp_linux", "icmp_windows", "tcp", "udp"}
    /\ eng_state = "unbuilt"
    /\ privileged \in BOOLEAN
    /\ src_port \in SrcPortStarts
    /\ ProbeIdle

NextProbe ==
    \/ \E ok \in BOOLEAN : EngineConstruct(ok)
    \/ \E t \in TtlInputs, f \in SendFaults : ProbeSend(t, f)
    \/ \E d \in Receivable(eng_kind, p_sent, sequence, src_port, p_dst_port),
          dt \in 0..1 : ProbeRecv(d, dt)
    \/ \E dt \in 0..1 : ProbeRecvError(dt)
    \/ ProbeTimeout
    \/ \E t \in TtlInputs, r \in WindowsReplies, x \in BOOLEAN : ProbeWindows(t, r, x)
    \/ EngineClose

SpecProbe == InitProbe /\ [][NextProbe]_vars


(***************************************************************************)
(* Properties of Tracer.trace, stated over SpecTrace                       *)
(***************************************************************************)
\* C1: a hop with reached_target is the last hop of the list (so there is at most
\* one); once it is recorded the trace has stopped, and no probe was sent for any
\* higher TTL.
C1_TerminalHopIsLast ==
    \A i \in 1..Len(hops) :
        hops[i].reached_target =>
            /\ i = Len(hops)
            /\ tr_state # "probing"
            /\ \A t \in (hops[i].hop + 1)..(MaxHops + 1) : ProbesSent(t) = 0

\* A trace that stopped at a terminal hop before max_hops
C1_Witness ==
    /\ tr_state = "returned"
    /\ Len(hops) >= 1
    /\ Len(hops) < max_hops
    /\ hops[Len(hops)].reached_target

\* C2: the list has at most max_hops hops and the i-th hop has TTL i.
C2_HopsBoundedAscending ==
    /\ Len(hops) <= max_hops
    /\ \A i \in 1..Len(hops) : hops[i].hop = i

\* A trace that ran to max_hops without a terminal hop
C2_Witness ==
    /\ tr_state = "returned"
    /\ max_hops >= 2
    /\ Len(hops) = max_hops
    /\ ~hops[Len(hops)].reached_target

\* C3: every hop has probes_per_hop rtts, probes_per_hop probes were sent at its
\* TTL, and rtts[j] is the rtt_ms of the j-th of them (None for a timeout).
C3_RttsOnePerProbe ==
    \A i \in 1..Len(hops) :
        /\ Len(hops[i].rtts) = probes_per_hop
        /\ ProbesSent(hops[i].hop) = probes_per_hop
        /\ \A j \in 1..probes_per_hop :
               hops[i].rtts[j] = probe_log[hops[i].hop][j].rtt_ms

\* A hop whose first probe was terminal and whose second probe timed out
C3_Witness ==
    \E i \in 1..Len(hops) :
        /\ probes_per_hop = 2
        /\ probe_log[hops[i].hop][1].reached_target
        /\ probe_log[hops[i].hop][2] = PR_TIMEOUT
        /\ hops[i].rtts[2] = NoneRtt

\* C4: with a callback, the calls of on_hop are the hops of the list, one each and
\* in the same order; each call came after all probes_per_hop probes of its TTL,
\* and a probe of TTL t is sent only after the calls for the TTLs below t.
C4_OnHopOncePerHopInOrder ==
    on_hop_kind # "none" =>
        /\ on_hop_calls = hops
        /\ \A i \in 1..Len(on_hop_calls) :
               ProbesSent(on_hop_calls[i].hop) = probes_per_hop
        /\ \A t \in 2..(MaxHops + 1) :
               ProbesSent(t) > 0 => Len(on_hop_calls) >= t - 1

\* A returned trace of two hops, the last one terminal, with a callback
C4_Witness ==
    /\ on_hop_kind = "mock"
    /\ tr_state = "returned"
    /\ probes_per_hop >= 1
    /\ Len(on_hop_calls) = 2
    /\ on_hop_calls[2].reached_target

(***************************************************************************)
(* Properties of Cache, stated over SpecCache                              *)
(***************************************************************************)
ReadsAbsent(ip) ==
    /\ Cache_get(cache_data, cache_ttl, now, ip) = NoneRec
    /\ ~Cache_has(cache_data, cache_ttl, now, ip)
    /\ Cache_get_asn(cache_data, cache_ttl, now, ip) = NoneRec
    /\ Cache_get_geo(cache_data, cache_ttl, now, ip) = NoneRec
    /\ Cache_get_ptr(cache_data, cache_ttl, now, ip) = None

\* C5: a cache constructed with ttl=0 answers absent to every read of every IP.
C5_NoCacheReadsAbsent ==
    (cache_state = "live" /\ ttl_arg = 0) => \A ip \in CacheIPs : ReadsAbsent(ip)

\* The time since the latest set(ip, ...)
SinceSet(ip) == now - last_set[ip].at

\* C6: less than TTL after set(ip, asn, geo, ptr), get(ip) is the entry stamped at
\* the time of the set, and get_asn, get_geo and get_ptr give back the records
\* written (a sub-record passed as None was not written).
C6_SetThenGet ==
    \A ip \in CacheIPs :
        (cache_state = "live" /\ last_set[ip] # NoneRec /\ SinceSet(ip) < RequestedTTL) =>
            LET w == last_set[ip]
                a == Cache_get_asn(cache_data, cache_ttl, now, ip)
            IN
            /\ Cache_get(cache_data, cache_ttl, now, ip) = cache_data[ip]
            /\ cache_data[ip]["_ts"] = w.at
            /\ Cache_has(cache_data, cache_ttl, now, ip)
            /\ w.asn # NoneRec =>
                   /\ a # NoneRec
                   /\ a.asn = w.asn.asn /\ a.org = w.asn.org
                   /\ a.prefix = w.asn.prefix /\ a.country = w.asn.country
            /\ w.geo # NoneRec => Cache_get_geo(cache_data, cache_ttl, now, ip) = w.geo
            /\ w.ptr # None => Cache_get_ptr(cache_data, cache_ttl, now, ip) = w.ptr

\* A full set read back one second before its TTL runs out
C6_Witness ==
    \E ip \in CacheIPs :
        /\ cache_state = "live"
        /\ last_set[ip] # NoneRec
        /\ last_set[ip].asn = ASN_2
        /\ last_set[ip].geo = GEO_2
        /\ last_set[ip].ptr = PTR_2
        /\ SinceSet(ip) = RequestedTTL - 1
        /\ SinceSet(ip) > 0

\* C7: TTL or more after the latest set(ip, ...), every read of ip answers absent
\* while the entry is still in memory.
C7_ExpiredReadsAbsent ==
    \A ip \in CacheIPs :
        (cache_state = "live" /\ last_set[ip] # NoneRec /\ SinceSet(ip) >= RequestedTTL) =>
            /\ ReadsAbsent(ip)
            /\ ip \in DOMAIN cache_data

(***************************************************************************)
(* Properties of main and enrich_hop_sync, stated over SpecMain            *)
(***************************************************************************)
\* C8: every enriched hop with a public responder either hit the cache or had
\* Cache.set called for its IP.
C8_HitOrUpdated ==
    \A i \in 1..Len(enrich_log) :
        enrich_log[i].public => (enrich_log[i].hit \/ enrich_log[i].set_called)

\* C9: a run that was interrupted (exit code 130) with a modified cache wrote the
\* cache to disk before exiting.
C9_InterruptFlushesCache ==
    (m_pc = "exited" /\ exit_code = 130 /\ ~no_cache /\ cache_dirty) => save_attempts > 0

(***************************************************************************)
(* Properties of the probe engines, stated over SpecProbe                  *)
(***************************************************************************)
\* C10: no probe() call of any engine ends by raising.
C10_ProbeNeverRaises == p_pc # "raised"

\* The probe returned a response (a ProbeResult with a responder)
Responded == p_pc = "returned" /\ p_result # EmptyProbeResult

\* The datagram holds the bytes an ICMP error quotes: its own 8-byte header, the
\* embedded IP header and the 8 bytes after it
QuotesProbe(d) == d.len - d.ihl >= 8 + d.inner_ihl + 8

\* The datagram answers the Echo Request with sequence sq of this engine
ICMP_Correlated(d, sq) ==
    /\ d.len >= 20
    /\ d.len >= d.ihl + 8
    /\ \/ d.type = ICMP_ECHO_REPLY /\ d.ident = OUR_IDENT /\ d.seq = sq
       \/ /\ d.type \in {ICMP_TIME_EXCEEDED, ICMP_DEST_UNREACHABLE}
          /\ QuotesProbe(d)
          /\ d.inner_type = ICMP_ECHO_REQUEST
          /\ d.inner_ident = OUR_IDENT
          /\ d.inner_seq = sq

\* C11: the raw-socket ICMP engine returns a response only for a datagram that is
\* an Echo Reply with its identifier and the outstanding sequence, or a
\* Time-Exceeded/Dest-Unreachable quoting an Echo Request with them; after any
\* other datagram it is still waiting (or has timed out with an empty result),
\* and it never waits past the deadline of the send.
C11_IcmpCorrelation ==
    eng_kind = "icmp_linux" =>
        /\ Responded =>
               /\ p_dgram # NoneRec
               /\ ICMP_Correlated(p_dgram, sequence)
               /\ p_result.responder_ip = p_dgram.src
        /\ (p_dgram # NoneRec /\ ~ICMP_Correlated(p_dgram, sequence)) =>
               \/ p_pc = "waiting"
               \/ p_pc = "returned" /\ p_result = EmptyProbeResult
        /\ p_pc = "waiting" => p_elapsed < PROBE_TIMEOUT

\* A Time-Exceeded of another process (foreign identifier, our sequence) was
\* discarded one second into the wait
C11_Witness ==
    /\ eng_kind = "icmp_linux"
    /\ p_pc = "waiting"
    /\ p_elapsed = 1
    /\ p_dgram # NoneRec
    /\ p_dgram.type = ICMP_TIME_EXCEEDED
    /\ QuotesProbe(p_dgram)
    /\ p_dgram.inner_type = ICMP_ECHO_REQUEST
    /\ p_dgram.inner_ident # OUR_IDENT
    /\ p_dgram.inner_seq = sequence

\* The datagram is an ICMP error quoting a TCP segment sent to the probe's port
TCP_Correlated(d) ==
    /\ d.len - d.ihl >= 36
    /\ d.type \in {ICMP_TIME_EXCEEDED, ICMP_DEST_UNREACHABLE}
    /\ d.inner_proto = IPPROTO_TCP
    /\ d.inner_dport = TCP_PORT

UDP_Correlated(d) ==
    /\ d.len - d.ihl >= 36
    /\ d.type \in {ICMP_TIME_EXCEEDED, ICMP_DEST_UNREACHABLE}
    /\ d.inner_proto = IPPROTO_UDP
    /\ d.inner_dst = TARGET_IP
    /\ d.inner_dport \in UDP_BASE_PORT..(UDP_BASE_PORT + UDP_PORT_WINDOW - 1)

\* C13: the UDP engine returns a response only for a Time-Exceeded or
\* Dest-Unreachable quoting a UDP datagram to the target and to a port in
\* [base_port, base_port + 30); after any other datagram it is still waiting or
\* has timed out with an empty result.
C13_UdpCorrelation ==
    eng_kind = "udp" =>
        /\ Responded =>
               /\ p_dgram # NoneRec
               /\ UDP_Correlated(p_dgram)
               /\ p_result.responder_ip = p_dgram.src
        /\ (p_dgram # NoneRec /\ ~UDP_Correlated(p_dgram)) =>
               \/ p_pc = "waiting"
               \/ p_pc = "returned" /\ p_result = EmptyProbeResult

\* A Dest-Unreachable quoting a TCP segment to the target and to the probe's
\* port was discarded
C13_Witness ==
    /\ eng_kind = "udp"
    /\ p_pc = "waiting"
    /\ p_dgram # NoneRec
    /\ p_dgram.type = ICMP_DEST_UNREACHABLE
    /\ p_dgram.len - p_dgram.ihl >= 36
    /\ p_dgram.inner_proto # IPPROTO_UDP
    /\ p_dgram.inner_dst = TARGET_IP
    /\ p_dgram.inner_dport = p_dst_port

\* C14: every ProbeResult an engine returns has a responder when it is terminal,
\* and has an RTT exactly when it has a responder, the RTT then being >= 0.
C14_ProbeResultWellFormed ==
    p_pc = "returned" =>
        /\ p_result.reached_target => p_result.responder_ip # NoIP
        /\ (p_result.rtt_ms # NoneRtt) <=> (p_result.responder_ip # NoIP)
        /\ p_result.rtt_ms # NoneRtt => p_result.rtt_ms >= 0

\* The Windows engine returned a terminal result for a status other than
\* success, with an RTT of 0 ms
C14_Witness ==
    /\ eng_kind = "icmp_windows"
    /\ Responded
    /\ p_result.reached_target
    /\ p_result.responder_ip = HOP_PUBLIC
    /\ p_result.rtt_ms = 0

(***************************************************************************)
(* Properties of enrich_hop_sync, stated over SpecMain                     *)
(***************************************************************************)
\* A geo with nothing but a country code
CountryCodeOnly(geo) ==
    /\ geo # NoneRec
    /\ geo.country = None /\ geo.city = None /\ geo.lat = None /\ geo.lon = None
    /\ Truthy(geo.country_code)

TaggedClasses == {"private", "cgnat", "loopback", "linklocal", "reserved"}

SuppliedKeys(asn, geo, ptr) ==
    (IF asn # NoneRec THEN {"asn", "org", "prefix", "asn_country"} ELSE {})
    \cup (IF geo # NoneRec
          THEN {"geo_country", "geo_country_code", "geo_city", "geo_lat", "geo_lon"}
          ELSE {})
    \cup (IF ptr # None THEN {"ptr"} ELSE {})

\* new is old with only the supplied keys and _ts of ip's entry written
MergedOnly(old, new, ip, asn, geo, ptr) ==
    LET before == IF ip \in DOMAIN old THEN old[ip] ELSE EmptyDict
        after == new[ip]
        kept == DOMAIN before \ (SuppliedKeys(asn, geo, ptr) \cup {"_ts"})
    IN
    /\ DOMAIN new = DOMAIN old \cup {ip}
    /\ \A other \in DOMAIN old \ {ip} : new[other] = old[other]
    /\ DOMAIN after = DOMAIN before \cup SuppliedKeys(asn, geo, ptr) \cup {"_ts"}
    /\ \A k \in kept : after[k] = before[k]
    /\ after["_ts"] = now
    /\ asn # NoneRec =>
           /\ after["asn"] = asn.asn /\ after["org"] = asn.org
           /\ after["prefix"] = asn.prefix /\ after["asn_country"] = asn.country
    /\ geo # NoneRec =>
           /\ after["geo_country"] = geo.country
           /\ after["geo_country_code"] = geo.country_code
           /\ after["geo_city"] = geo.city
           /\ after["geo_lat"] = geo.lat /\ after["geo_lon"] = geo.lon
    /\ ptr # None => after["ptr"] = ptr

\* C17: every call of Cache.set leaves the entries of all other IPs as they
\* were, leaves every stored field of the sub-records it does not supply as it
\* was, and writes only the supplied fields and the entry's timestamp.
C17_SetIsFieldwiseMerge ==
    [][\A ip \in CacheIPs, a \in SetArgs :
           CacheSet(ip, a[1], a[2], a[3]) =>
               MergedOnly(cache_data, cache_data', ip, a[1], a[2], a[3])]_vars

\* Only a PTR was set on an entry that held ASN fields from the file, beside
\* the entry of another IP
C17_Witness ==
    /\ last_set[IP_A] # NoneRec
    /\ last_set[IP_A].asn = NoneRec /\ last_set[IP_A].geo = NoneRec
    /\ last_set[IP_A].ptr = PTR_2
    /\ IP_A \in DOMAIN cache_data /\ IP_B \in DOMAIN cache_data
    /\ cache_data[IP_A] = DictPut(DictPut(FileEntry(0), "ptr", PTR_2), "_ts",
                                  last_set[IP_A].at)

(***************************************************************************)
(* The geo fallback of enrich_hop_sync, stated over SpecEnrich             *)
(***************************************************************************)
\* The geo the call obtained, from the cache or else from its lookup
ObtainedGeo(e) == IF e.cached.geo # NoneRec THEN e.cached.geo ELSE e.results.geo

\* The ASN record the call knows, from its lookup or else from the cache
KnownAsn(e) == IF e.results.asn # NoneRec THEN e.results.asn ELSE e.cached.asn

FullyCachedPath(e) == e.cache_read /\ e.looked_up = {}
LookupPath(e) == e.cache_read /\ e.looked_up # {}

\* C18: on the fully-cached path and on the lookup path alike, a geo obtained
\* from the cache or from the lookup is returned as it is; when none was
\* obtained and an ASN record with a country code is known, the returned geo has
\* that code as country_code and every other field absent.
C18_GeoFallback ==
    \A i \in 1..Len(enrich_log) :
        LET e == enrich_log[i]
            h == enriched_hops[i]
        IN
        (FullyCachedPath(e) \/ LookupPath(e)) =>
            /\ ObtainedGeo(e) # NoneRec => h.geo = ObtainedGeo(e)
            /\ (ObtainedGeo(e) = NoneRec /\ KnownAsn(e) # NoneRec
                    /\ Truthy(KnownAsn(e).country)) =>
                   h.geo = [country |-> None, country_code |-> KnownAsn(e).country,
                            city |-> None, lat |-> None, lon |-> None]

\* The fallback was applied on the lookup path (the ASN looked up, no geo
\* obtained) and then on the fully-cached path (the ASN cached, no geo cached)
C18_Witness ==
    /\ Len(enrich_log) = 2
    /\ LookupPath(enrich_log[1])
    /\ enrich_log[1].results.asn = ASN_1
    /\ enrich_log[1].results.geo = NoneRec
    /\ enriched_hops[1].geo # NoneRec
    /\ FullyCachedPath(enrich_log[2])
    /\ enrich_log[2].cached.asn # NoneRec
    /\ enrich_log[2].cached.geo = NoneRec
    /\ enriched_hops[2].geo # NoneRec
    /\ enriched_hops[2].geo.country_code = "US"

(***************************************************************************)
(* Properties of Diagnostics, stated over SpecDiag                         *)
(***************************************************************************)
HasTag(hop, tag) == \E k \in 1..Len(hop.tags) : hop.tags[k] = tag

\* Hop i of the list had no responder and no RTT, and a later hop had a responder
FilteredAt(hs, i) ==
    /\ hs[i].ip = NoIP
    /\ \A k \in 1..Len(hs[i].rtts) : hs[i].rtts[k] = NoneRtt
    /\ \E j \in (i + 1)..Len(hs) : hs[j].ip # NoIP

\* C19: after add_tags a hop carries icmp_filtered exactly when it has no
\* responder, all its RTTs are absent and some later hop has a responder; no hop
\* from which on nobody responds carries it; and analyze's filtered_hops holds
\* exactly the TTLs of those hops, each once.
C19_IcmpFilteredIffLaterResponse ==
    /\ tags_added =>
           \A i \in 1..Len(diag_hops) :
               /\ HasTag(diag_hops[i], "icmp_filtered") <=> FilteredAt(diag_input, i)
               /\ (\A j \in i..Len(diag_hops) : diag_input[j].ip = NoIP)
                      => ~HasTag(diag_hops[i], "icmp_filtered")
    /\ diagnosis # NoneRec =>
           LET ttls == {diag_input[i].hop : i \in {j \in 1..Len(diag_input) :
                                                       FilteredAt(diag_input, j)}}
           IN  /\ {diagnosis.filtered_hops[k] : k \in 1..Len(diagnosis.filtered_hops)}
                      = ttls
               /\ Len(diagnosis.filtered_hops) = Cardinality(ttls)

\* Of two silent hops the one before the last responder is tagged and listed,
\* the one after it is not
C19_Witness ==
    /\ tags_added
    /\ diagnosis # NoneRec
    /\ Len(diag_hops) = 3
    /\ FilteredAt(diag_input, 1)
    /\ diag_input[3].ip = NoIP /\ diag_input[3].rtts = <<NoneRtt, NoneRtt>>
    /\ HasTag(diag_hops[1], "icmp_filtered")
    /\ ~HasTag(diag_hops[3], "icmp_filtered")
    /\ diagnosis.filtered_hops = <<1>>

HasMean(hop) == \E k \in 1..Len(hop.rtts) : hop.rtts[k] # NoneRtt

\* The hop whose mean is the baseline of hop i: the nearest earlier hop with a
\* mean (0 when there is none)
BaselineOf(hs, i) ==
    IF \E j \in 1..(i - 1) : HasMean(hs[j])
    THEN CHOOSE j \in 1..(i - 1) :
             HasMean(hs[j]) /\ \A m \in (j + 1)..(i - 1) : ~HasMean(hs[m])
    ELSE 0

\* Hop i has a delta, and it is at least the threshold
DeltaReaches(hs, i, threshold) ==
    /\ HasMean(hs[i])
    /\ BaselineOf(hs, i) # 0
    /\ DeltaAtLeast(Delta(rtt_avg(hs[i]), rtt_avg(hs[BaselineOf(hs, i)])), threshold)

\* C20: after add_tags, under every threshold configuration, a hop whose delta
\* is at least the egress threshold carries latency_jump and
\* international_egress; one whose delta is below the egress threshold and at
\* least the latency-jump threshold carries latency_jump alone; every other hop
\* carries neither; so international_egress never comes without latency_jump.
C20_LatencyTagsByDelta ==
    tags_added =>
        \A i \in 1..Len(diag_hops) :
            LET egress == DeltaReaches(diag_input, i, diag_cfg.egress_threshold)
                jump == DeltaReaches(diag_input, i, diag_cfg.latency_jump_threshold)
                h == diag_hops[i]
            IN
            /\ egress => HasTag(h, "latency_jump") /\ HasTag(h, "international_egress")
            /\ (~egress /\ jump) =>
                   HasTag(h, "latency_jump") /\ ~HasTag(h, "international_egress")
            /\ (~egress /\ ~jump) =>
                   ~HasTag(h, "latency_jump") /\ ~HasTag(h, "international_egress")
            /\ HasTag(h, "international_egress") => HasTag(h, "latency_jump")

\* Means 1, 81 and 201 under the default thresholds: the second hop (delta 80)
\* carries latency_jump alone, the third (delta 120) both tags
C20_Witness ==
    /\ tags_added
    /\ diag_cfg = DefaultThresholds
    /\ Len(diag_hops) = 3
    /\ ~HasTag(diag_hops[1], "latency_jump")
    /\ HasTag(diag_hops[2], "latency_jump")
    /\ ~HasTag(diag_hops[2], "international_egress")
    /\ HasTag(diag_hops[3], "latency_jump")
    /\ HasTag(diag_hops[3], "international_egress")

\* The TTLs listed in the diagnosis' latency_jumps
JumpTtls == {diagnosis.latency_jumps[k][1] : k \in 1..Len(diagnosis.latency_jumps)}

\* The delta of hop i against its baseline hop
DeltaVsBaseline(hs, i) == Delta(rtt_avg(hs[i]), rtt_avg(hs[BaselineOf(hs, i)]))

\* C21: a hop without a mean RTT is never tagged latency_jump and never listed
\* in latency_jumps; the first hop with a mean has no delta, so it is neither
\* tagged nor listed; every later hop with a mean is judged by its delta against
\* the nearest earlier hop that had a mean, however many silent hops lie
\* between: it is tagged and listed by that delta, and listed with that delta.
C21_TimeoutKeepsBaseline ==
    \A i \in 1..Len(diag_input) :
        LET no_delta == ~HasMean(diag_input[i]) \/ BaselineOf(diag_input, i) = 0
            ttl_i == diag_input[i].hop
        IN
        /\ (tags_added /\ no_delta) =>
               /\ ~HasTag(diag_hops[i], "latency_jump")
               /\ ~HasTag(diag_hops[i], "international_egress")
        /\ (diagnosis # NoneRec /\ no_delta) => ttl_i \notin JumpTtls
        /\ (tags_added /\ ~no_delta) =>
               (HasTag(diag_hops[i], "latency_jump") <=>
                   \/ DeltaAtLeast(DeltaVsBaseline(diag_input, i),
                                   diag_cfg.latency_jump_threshold)
                   \/ DeltaAtLeast(DeltaVsBaseline(diag_input, i),
                                   diag_cfg.egress_threshold))
        /\ (diagnosis # NoneRec /\ ~no_delta) =>
               /\ ttl_i \in JumpTtls <=>
                      DeltaAtLeast(DeltaVsBaseline(diag_input, i),
                                   diag_cfg.latency_jump_threshold)
               /\ \A k \in 1..Len(diagnosis.latency_jumps) :
                      diagnosis.latency_jumps[k][1] = ttl_i =>
                          diagnosis.latency_jumps[k][2] =
                              RoundTenths(DeltaVsBaseline(diag_input, i))

\* Means 1, none, 81: the third hop is tagged and listed with the delta 80.0
\* against the first hop, across the silent second hop
C21_Witness ==
    /\ tags_added
    /\ diagnosis # NoneRec
    /\ diag_cfg = DefaultThresholds
    /\ Len(diag_input) = 3
    /\ HasMean(diag_input[1])
    /\ ~HasMean(diag_input[2])
    /\ HasMean(diag_input[3])
    /\ HasTag(diag_hops[3], "latency_jump")
    /\ diagnosis.latency_jumps = << <<3, 800>> >>

\* C22: for every hop list given to analyze, reachable is the reached flag of
\* the last hop, total_hops is the number of hops, and a diagnosis with
\* reachable false has "Target unreachable" among its issues.
C22_ReachableAndUnreachableIssue ==
    diagnosis # NoneRec =>
        /\ diag_hops # << >> =>
               diagnosis.reachable = diag_hops[Len(diag_hops)].reached_target
        /\ diagnosis.total_hops = Len(diag_hops)
        /\ ~diagnosis.reachable =>
               \E k \in 1..Len(diagnosis.issues) :
                   diagnosis.issues[k].issue = "Target unreachable"

(***************************************************************************)
(* The engine's sockets over Tracer.trace, stated over SpecTrace           *)
(***************************************************************************)
\* C23: whenever Tracer.trace has been left, by its return (all hops done or
\* the target reached) or by an exception (of the engine, of the on_hop callback
\* or a user interrupt), no socket the engine opened is still open; and probes
\* are sent only while the engine is open.
C23_EngineClosedOnEveryExit ==
    /\ tr_state \in {"returned", "raised"} => probe_open \in {"unopened", "closed"}
    /\ tr_state = "probing" => probe_open = "open"

(***************************************************************************)
(* The privilege check of main, stated over SpecMain                       *)
(***************************************************************************)
\* C24: a run without elevated privileges never gets past the privilege check:
\* it is at the start or has exited with code 1, and no cache was constructed,
\* the target was not resolved, no engine was created and no probe was sent.
C24_UnprivilegedExitsFirst ==
    ~is_admin =>
        /\ m_pc \in {"start", "exited"}
        /\ m_pc = "exited" => exit_code = 1
        /\ cache_state = "none"
        /\ tr_state = "idle"
        /\ probe_open = "unopened"
        /\ probe_log = NoProbes
        /\ hops = << >>

\* An unprivileged run has exited with code 1 and no cache was constructed
C24_Witness == ~is_admin /\ m_pc = "exited" /\ exit_code = 1 /\ cache_state = "none"

(***************************************************************************)
(* Late answers to earlier probes, stated over SpecProbe                   *)
(***************************************************************************)
\* The datagram is an ICMP error quoting the probe this engine sent as attempt a
QuotesAttempt(d, a) ==
    /\ d.type \in {ICMP_TIME_EXCEEDED, ICMP_DEST_UNREACHABLE}
    /\ QuotesProbe(d)
    /\ d.inner_dst = TARGET_IP
    /\ IF eng_kind = "icmp_linux"
       THEN /\ d.inner_proto = IPPROTO_ICMP /\ d.inner_type = ICMP_ECHO_REQUEST
            /\ d.inner_ident = OUR_IDENT /\ d.inner_seq = a.seq
       ELSE IF eng_kind = "tcp"
       THEN /\ d.inner_proto = IPPROTO_TCP /\ d.inner_dport = TCP_PORT
            /\ d.inner_sport = a.sport
       ELSE /\ d.inner_proto = IPPROTO_UDP /\ d.inner_dport = a.dport

\* The datagram answers an earlier probe of the engine and not the latest one
ElicitedByEarlierProbe(d) ==
    /\ p_sent # << >>
    /\ ~QuotesAttempt(d, p_sent[Len(p_sent)])
    /\ \E k \in 1..(Len(p_sent) - 1) : QuotesAttempt(d, p_sent[k])

\* C25: no engine returns, as the result of its latest probe, an ICMP error
\* that quotes an earlier probe of the same engine.
C25_LateErrorNotReturned ==
    (Responded /\ p_dgram # NoneRec) => ~ElicitedByEarlierProbe(p_dgram)

(***************************************************************************)
(* The deadline of a probe, stated over SpecProbe                          *)
(***************************************************************************)
\* The last datagram this probe received was discarded as uncorrelated
LastDatagramDiscarded ==
    /\ p_dgram # NoneRec
    /\ ParseResponse(eng_kind, p_dgram, p_elapsed, sequence, p_dst_port) = NoneRec

\* C26: a probe never waits beyond send_time + timeout whatever it receives and
\* discards meanwhile, and a probe that returns without a correlated response
\* returns the empty ProbeResult.
C26_ProbeReturnsByDeadline ==
    /\ p_elapsed <= PROBE_TIMEOUT
    /\ p_pc = "waiting" => p_elapsed < PROBE_TIMEOUT
    /\ (p_pc = "returned" /\ eng_kind # "icmp_windows"
           /\ (p_dgram = NoneRec \/ LastDatagramDiscarded))
          => p_result = EmptyProbeResult

\* A probe discarded a datagram one second in and returned empty at the deadline
C26_Witness ==
    /\ p_pc = "returned"
    /\ eng_kind \in {"tcp", "udp"}
    /\ LastDatagramDiscarded
    /\ p_elapsed = PROBE_TIMEOUT
    /\ p_result = EmptyProbeResult

(***************************************************************************)
(* How a hop summarises its probes, stated over SpecTrace                  *)
(***************************************************************************)
\* The positions of the probes at TTL t that got a response
Answered(t) == { k \in 1..Len(probe_log[t]) : probe_log[t][k].responder_ip # NoIP }

LatestAnswered(t) == CHOOSE k \in Answered(t) : \A j \in Answered(t) : j <= k

\* C27: the responder of a hop is the responder of the latest probe at its TTL
\* that got a response, and is absent exactly when every probe at that TTL timed
\* out; the hop is flagged reached exactly when some probe at that TTL was terminal.
C27_HopSummarisesItsProbes ==
    \A i \in 1..Len(hops) :
        LET t == hops[i].hop IN
        /\ hops[i].ip = IF Answered(t) = {} THEN NoIP
                        ELSE probe_log[t][LatestAnswered(t)].responder_ip
        /\ hops[i].ip = NoIP <=>
               \A k \in 1..Len(probe_log[t]) : probe_log[t][k] = PR_TIMEOUT
        /\ hops[i].reached_target <=>
               \E k \in 1..Len(probe_log[t]) : probe_log[t][k].reached_target

\* A hop whose two probes were answered by different responders, the first of
\* them terminal, after a hop whose only answer came before a timeout
C27_Witness ==
    \E i \in 1..Len(hops) :
        LET t == hops[i].hop IN
        /\ Len(probe_log[t]) = 2
        /\ probe_log[t][1].responder_ip = HOP_PUBLIC
        /\ probe_log[t][1].reached_target
        /\ probe_log[t][2].responder_ip = HOP_PRIVATE
        /\ hops[i].ip = HOP_PRIVATE
        /\ hops[i].reached_target
        /\ \E j \in 1..Len(hops) :
               /\ probe_log[hops[j].hop][2] = PR_TIMEOUT
               /\ hops[j].ip = HOP_PUBLIC

(***************************************************************************)
(* The terminal flag of the UDP engine, stated over SpecProbe              *)
(***************************************************************************)
\* C28: a UDP probe answered by a Time-Exceeded is not terminal, and one answered
\* by a Dest-Unreachable is terminal whatever the code of the message.
C28_UdpTerminalFlag ==
    (eng_kind = "udp" /\ Responded /\ p_dgram # NoneRec) =>
        /\ p_dgram.type = ICMP_TIME_EXCEEDED => ~p_result.reached_target
        /\ p_dgram.type = ICMP_DEST_UNREACHABLE => p_result.reached_target

C30_LookupsInFlightTogether ==
    /\ fetch_done # {} => fetch_started = fetch_need
    /\ fetch_pc = "returned" => fetch_done = fetch_need

(***************************************************************************)
(* Merging the results of one hop, stated over SpecFetch                   *)
(***************************************************************************)
MergeOrders ==
    { <<"asn", "geo", "ptr">>, <<"asn", "ptr", "geo">>, <<"geo", "asn", "ptr">>,
      <<"geo", "ptr", "asn">>, <<"ptr", "asn", "geo">>, <<"ptr", "geo", "asn">> }

\* One result of R merged alone into the EnrichedHop and the cache of st
MergeStep(st, k, R) ==
    LET r_asn == IF k = "asn" THEN R.asn ELSE NoneRec
        r_geo == IF k = "geo" THEN R.geo ELSE NoneRec
        r_ptr == IF k = "ptr" THEN R.ptr ELSE None
    IN  [enriched |-> ApplyResults(st.enriched, r_asn, r_geo, r_ptr),
         data |-> ApplyResultsToCache(st.data, now, IP_A, r_asn, r_geo, r_ptr)]

MergeInOrder(o, st, R) ==
    MergeStep(MergeStep(MergeStep(st, o[1], R), o[2], R), o[3], R)

\* The EnrichedHop the merge starts from: what the cache alone gives for the hop
MergeBase ==
    enrich_hop_sync(FetchHop, cache_data, cache_ttl, now, enable_ptr, enable_geo,
                    NoAnswers).enriched

\* What the program's own merge gives: ASN, then Geo, then PTR
MergeOfProgram ==
    [enriched |-> ApplyResults(MergeBase, fetch_results.asn, fetch_results.geo,
                               fetch_results.ptr),
     data |-> enrich_hop_sync(FetchHop, cache_data, cache_ttl, now, enable_ptr,
                              enable_geo,
                              [asn |-> fetch_results.asn, geo |-> fetch_results.geo,
                               ptr |-> fetch_results.ptr, raises |-> FALSE]).data]

\* C31: once the lookups of a hop have returned, merging their ASN, Geo and PTR
\* results in any of the six orders gives the enriched fields and the cache
\* contents that the program's own merge gives.
C31_MergeCommutes ==
    fetch_pc = "returned" =>
        \A o \in MergeOrders :
            MergeInOrder(o, [enriched |-> MergeBase, data |-> cache_data],
                         fetch_results) = MergeOfProgram

\* The three lookups of a hop all answered and were merged into an entry the
\* cache already held for its IP
C31_Witness ==
    /\ fetch_pc = "merged"
    /\ fetch_need = Lookups
    /\ fetch_results.asn # NoneRec
    /\ fetch_results.geo # NoneRec
    /\ Truthy(fetch_results.ptr)
    /\ DictGet(cache_data[IP_A], "asn") = fetch_results.asn.asn
    /\ DictGet(cache_data[IP_A], "ptr") = fetch_results.ptr
    /\ "geo_country" \in DOMAIN cache_data[IP_A]

(***************************************************************************)
(* When the cache is written, stated over SpecMain                         *)
(***************************************************************************)
\* The results the lookups of the i-th enriched hop gave are in the cache
WritesStored(i) ==
    LET e == enrich_log[i]
        entry == IF e.ip \in DOMAIN cache_data THEN cache_data[e.ip] ELSE EmptyDict
    IN
    /\ e.results.asn # NoneRec => DictGet(entry, "asn") = e.results.asn.asn
    /\ e.results.geo # NoneRec => DictGet(entry, "geo_country") = e.results.geo.country
    /\ Truthy(e.results.ptr) => DictGet(entry, "ptr") = e.results.ptr

\* C32: when a probe of some TTL has been sent, every earlier hop has been
\* enriched and its cache writes are done; the in-memory cache changes during the
\* trace only in the step of a hop's callback; and the cache file changes only in
\* save(), after the trace loop has returned.
C32_CacheWritesBeforeNextProbe ==
    /\ [](\A t \in 1..(MaxHops + 1) :
             probe_log[t] # << >> =>
                 /\ Len(enrich_log) >= t - 1
                 /\ \A i \in 1..(t - 1) : WritesStored(i))
    /\ [](save_attempts > 0 => tr_state = "returned")
    /\ [][/\ (m_pc = "trace" /\ cache_data' # cache_data) =>
                 /\ Len(enrich_log') = Len(enrich_log) + 1
                 /\ Len(on_hop_calls') = Len(on_hop_calls) + 1
          /\ disk' # disk =>
                 /\ tr_state = "returned"
                 /\ save_attempts' = save_attempts + 1]_vars

\* The first hop's lookups answered and were written to the cache, the probe of
\* TTL 2 has been sent, and the cache file has not been written
C32_Witness ==
    /\ m_pc = "trace"
    /\ tr_state = "probing"
    /\ probe_log[2] # << >>
    /\ Len(enrich_log) = 1
    /\ enrich_log[1].set_called
    /\ enrich_log[1].results.asn # NoneRec
    /\ WritesStored(1)
    /\ cache_dirty
    /\ save_attempts = 0

(***************************************************************************)
(* Saving the cache, stated over SpecCache                                 *)
(***************************************************************************)
\* The file holds exactly the in-memory entries
FileHolds(d, data) == d = [state |-> "ok", data |-> data]

\* C33: on a live cache, the file is written only by a save of a dirty cache
\* (clear marks the cache dirty itself before it saves); a write that succeeds
\* leaves the file holding the in-memory entries and clears dirty, and dirty is
\* cleared in no other way; a write that fails changes neither the file nor the
\* entries and leaves dirty set; set and clear mark the cache dirty.
C33_SaveOnlyWhenDirty ==
    [][cache_state = "live" =>
         \* the file is written only when dirty, and then holds the entries
         /\ disk' # disk =>
                /\ cache_dirty \/ cache_data' = EmptyDict
                /\ save_attempts' = save_attempts + 1
                /\ FileHolds(disk', cache_data')
                /\ ~cache_dirty'
         \* a plain save attempts a write only when dirty
         /\ (save_attempts' # save_attempts /\ cache_data' = cache_data
                /\ cache_data # EmptyDict) => cache_dirty
         \* dirty is cleared only by a write that succeeded
         /\ (cache_dirty /\ ~cache_dirty') =>
                /\ save_attempts' = save_attempts + 1
                /\ FileHolds(disk', cache_data')
         \* a failed write leaves the file and dirty as they were
         /\ (save_attempts' # save_attempts /\ cache_dirty') =>
                /\ disk' = disk
                /\ cache_data' = cache_data \/ cache_data' = EmptyDict
         \* set and clear mark the cache dirty: afterwards it is dirty, or clear's
         \* own save has written the emptied cache
         /\ (cache_ops' # cache_ops /\ (last_set' # last_set \/ cache_data' # cache_data)) =>
                \/ cache_dirty'
                \/ cache_data' = EmptyDict /\ FileHolds(disk', EmptyDict)
      ]_vars

\* Two writes were attempted for entries put by set, and the file now holds them
C33_Witness ==
    /\ cache_state = "live"
    /\ save_attempts = 2
    /\ ~cache_dirty
    /\ cache_data # EmptyDict
    /\ FileHolds(disk, cache_data)
    /\ \E ip \in CacheIPs : last_set[ip] # NoneRec

(***************************************************************************)
(* The cache after construction, stated over SpecCache                     *)
(***************************************************************************)
\* The cache has just been constructed: nothing was done to it and no time passed
JustConstructed == cache_state = "live" /\ cache_ops = 0 /\ now = StartTime

\* C34: after construction the cache holds no entry whose age has reached the
\* TTL, it is dirty exactly when the sweep removed an entry of the file, and a
\* missing or unparsable file gives an empty cache that is not dirty.
C34_ConstructedCacheIsSwept ==
    JustConstructed =>
        /\ \A ip \in DOMAIN cache_data : now - EntryTs(cache_data[ip]) < cache_ttl
        /\ cache_dirty <=> (disk.state = "ok" /\ DOMAIN cache_data # DOMAIN disk.data)
        /\ disk.state # "ok" => (cache_data = EmptyDict /\ ~cache_dirty)

(***************************************************************************)
(* latency_jumps and egress_hop of the diagnosis, stated over SpecDiag     *)
(***************************************************************************)
\* The pairs (TTL, delta in tenths) of the hops up to n whose delta is at least
\* the threshold, in the order of the hops
JumpPairs(hs, threshold, n) ==
    LET P[i \in 0..n] ==
            IF i = 0 THEN << >>
            ELSE IF DeltaReaches(hs, i, threshold)
                 THEN Append(P[i - 1],
                             <<hs[i].hop, RoundTenths(DeltaVsBaseline(hs, i))>>)
                 ELSE P[i - 1]
    IN  P[n]

\* The TTL of the first hop whose delta is at least the threshold
FirstHopReaching(hs, threshold) ==
    IF \E i \in 1..Len(hs) : DeltaReaches(hs, i, threshold)
    THEN hs[CHOOSE i \in 1..Len(hs) :
                /\ DeltaReaches(hs, i, threshold)
                /\ \A j \in 1..(i - 1) : ~DeltaReaches(hs, j, threshold)].hop
    ELSE NoHop

\* C35: under every threshold configuration, latency_jumps lists in TTL order one
\* pair (TTL, delta rounded to one decimal) for each hop whose delta is at least
\* the latency-jump threshold and nothing else, and egress_hop is the TTL of the
\* first hop whose delta is at least the egress threshold, absent when no hop has
\* such a delta.
C35_JumpsAndEgressOfDiagnosis ==
    diagnosis # NoneRec =>
        /\ diagnosis.latency_jumps =
               JumpPairs(diag_input, diag_cfg.latency_jump_threshold, Len(diag_input))
        /\ diagnosis.egress_hop = FirstHopReaching(diag_input, diag_cfg.egress_threshold)

(***************************************************************************)
(* The destination and unreachable tags, stated over SpecDiag              *)
(***************************************************************************)
\* The hop had no responder and none of its probes gave an RTT
Silent(hop) == hop.ip = NoIP /\ \A k \in 1..Len(hop.rtts) : hop.rtts[k] = NoneRtt

\* C36: after add_tags, a hop carries destination exactly when it is the last
\* hop and is reached; it carries unreachable exactly when it is the last hop, is
\* not reached, has no responder and has no RTT; and no hop carries more than one
\* of destination, unreachable and icmp_filtered.
C36_DestinationAndUnreachableTags ==
    tags_added =>
        \A i \in 1..Len(diag_hops) :
            LET h == diag_hops[i]
                last == i = Len(diag_hops)
            IN
            /\ HasTag(h, "destination") <=> (last /\ diag_input[i].reached_target)
            /\ HasTag(h, "unreachable") <=>
                   (last /\ ~diag_input[i].reached_target /\ Silent(diag_input[i]))
            /\ Cardinality({t \in {"destination", "unreachable", "icmp_filtered"} :
                               HasTag(h, t)}) <= 1

\* A silent first hop before a responder is filtered, and the silent last hop,
\* not reached, is unreachable and nothing else
C36_Witness ==
    /\ tags_added
    /\ Len(diag_hops) = 3
    /\ Silent(diag_input[1]) /\ Silent(diag_input[3])
    /\ diag_input[2].ip # NoIP
    /\ ~diag_input[3].reached_target
    /\ HasTag(diag_hops[1], "icmp_filtered")
    /\ HasTag(diag_hops[3], "unreachable")
    /\ ~HasTag(diag_hops[3], "destination")
    /\ ~HasTag(diag_hops[3], "icmp_filtered")

(***************************************************************************)
(* The source ports of the TCP engine, stated over SpecProbe               *)
(***************************************************************************)
SrcPortRange == 32768..65535

\* C37: on a TCP engine the source port is always in 32768..65535, every probe
\* takes the port after the previous probe's, the port after 65535 being 32768,
\* and no two of the probes sent carried the same port.
C37_TcpSourcePortRotation ==
    /\ [](eng_kind = "tcp" =>
             /\ src_port \in SrcPortRange
             /\ \A k \in 1..Len(p_sent) : p_sent[k].sport \in SrcPortRange
             /\ \A j, k \in 1..Len(p_sent) :
                    j < k => p_sent[j].sport # p_sent[k].sport)
    /\ [][(eng_kind = "tcp" /\ p_count' = p_count + 1) =>
              src_port' = IF src_port = 65535 THEN 32768 ELSE src_port + 1]_vars

\* The engine sent a probe with the port 65535 and the next one with 32768
C37_Witness ==
    /\ eng_kind = "tcp"
    /\ Len(p_sent) >= 2
    /\ p_sent[1].sport = 65535
    /\ p_sent[2].sport = 32768
    /\ src_port = p_sent[Len(p_sent)].sport

(***************************************************************************)
(* Agreement of the tagging and the analysis passes, stated over SpecDiag  *)
(***************************************************************************)
\* The TTLs of the hops that carry the tag
TtlsTagged(tag) == {diag_hops[i].hop : i \in {j \in 1..Len(diag_hops) :
                                                 HasTag(diag_hops[j], tag)}}

\* The TTL of the first hop that carries the tag
FirstTtlTagged(tag) ==
    IF \E i \in 1..Len(diag_hops) : HasTag(diag_hops[i], tag)
    THEN diag_hops[CHOOSE i \in 1..Len(diag_hops) :
                       /\ HasTag(diag_hops[i], tag)
                       /\ \A j \in 1..(i - 1) : ~HasTag(diag_hops[j], tag)].hop
    ELSE NoHop

\* C38: once a hop list has been tagged and analysed under one configuration,
\* the TTLs tagged icmp_filtered are exactly filtered_hops, the TTLs tagged
\* latency_jump are exactly the TTLs of latency_jumps, and egress_hop is the TTL
\* of the first hop tagged international_egress, absent when no hop is.
C38_TagsAgreeWithDiagnosis ==
    (tags_added /\ diagnosis # NoneRec) =>
        /\ TtlsTagged("icmp_filtered") =
               {diagnosis.filtered_hops[k] : k \in 1..Len(diagnosis.filtered_hops)}
        /\ TtlsTagged("latency_jump") = JumpTtls
        /\ diagnosis.egress_hop = FirstTtlTagged("international_egress")

(***************************************************************************)
(* Expired entries stay unreadable, stated over SpecCache                  *)
(***************************************************************************)
\* The entry kept for ip has reached its TTL
HeldExpired(ip) ==
    /\ cache_state = "live"
    /\ ip \in DOMAIN cache_data
    /\ now - EntryTs(cache_data[ip]) >= cache_ttl

\* This step is a set(ip, ...)
SetStepOn(ip) == cache_state = "live" /\ last_set'[ip] # last_set[ip]

\* C39: a set on an ip whose entry has expired makes readable only the
\* sub-records that this set writes: get_asn, get_geo and get_ptr answer None
\* for the others, and get holds none of their fields.
C39_StaleSubRecordsStayUnreadable ==
    [][\A ip \in CacheIPs :
          (HeldExpired(ip) /\ SetStepOn(ip)) =>
              /\ last_set'[ip].asn = NoneRec =>
                     /\ Cache_get_asn(cache_data', cache_ttl', now', ip) = NoneRec
                     /\ LET e == Cache_get(cache_data', cache_ttl', now', ip) IN
                        e # NoneRec => "asn" \notin DOMAIN e
              /\ last_set'[ip].geo = NoneRec =>
                     /\ Cache_get_geo(cache_data', cache_ttl', now', ip) = NoneRec
                     /\ LET e == Cache_get(cache_data', cache_ttl', now', ip) IN
                        e # NoneRec => "geo_country" \notin DOMAIN e
              /\ last_set'[ip].ptr = None =>
                     /\ Cache_get_ptr(cache_data', cache_ttl', now', ip) = None
                     /\ LET e == Cache_get(cache_data', cache_ttl', now', ip) IN
                        e # NoneRec => "ptr" \notin DOMAIN e
      ]_vars

(***************************************************************************)
(* Present RTT statistics, stated over SpecDiag                            *)
(***************************************************************************)
\* C40: when the last hop has at least one RTT, diagnosis.avg_rtt is its mean;
\* in the exported JSON a hop's rtt_min, rtt_avg and rtt_max are null exactly
\* when all of its probes timed out.
C40_PresentRttNeverAbsent ==
    /\ (diagnosis # NoneRec /\ diag_hops # << >>
            /\ HasMean(diag_hops[Len(diag_hops)])) =>
           diagnosis.avg_rtt = rtt_avg(diag_hops[Len(diag_hops)])
    /\ exported # NoneRec =>
           \A i \in 1..Len(exported.hops) :
               /\ exported.hops[i].rtt_min = JsonNull <=> all_timeout(diag_hops[i])
               /\ exported.hops[i].rtt_avg = JsonNull <=> all_timeout(diag_hops[i])
               /\ exported.hops[i].rtt_max = JsonNull <=> all_timeout(diag_hops[i])

==========================================================================
